---------------------------- MODULE Spec2Model ----------------------------
(***************************************************************************)
(* Model of the MCO runtime core: the task state machine, the retry loop,  *)
(* the terminal-state reducer and the expiry predicate of                   *)
(* runtime/orchestrator.py, the run/poll/cancel supervision of              *)
(* runtime/adapters/shim.py, and the Markdown and SARIF formatters of       *)
(* runtime/formatters.py.                                                   *)
(*                                                                         *)
(* Each component has its own variables and its own specification; a       *)
(* component's specification leaves the other components' variables at     *)
(* their idle values. The adapter is modelled three times over the same    *)
(* state: driven by one caller (each call one step, cancel() split at its  *)
(* sleeps), driven by two threads (one step per statement that touches     *)
(* shared state), and with a child that spawns into its process group.     *)
(***************************************************************************)
EXTENDS Integers, Sequences, FiniteSets, TLC

VARIABLES
    \* ---- TaskStateMachine (orchestrator.py:40-47)
    state,          \* TaskStateMachine.state
    sm_call,        \* the last transition() call: [from, next, outcome]
    sm_calls,       \* number of transition() calls made so far
    \* ---- OrchestratorRuntime.run_with_retry (orchestrator.py:50-108)
    retry_policy,   \* self.retry_policy: [max_retries, base_delay_seconds,
                    \*                     backoff_multiplier]
    rr_pc,          \* "idle" | "loop" (inside while True) | "returned"
    attempts,       \* local attempts
    delays,         \* local delays
    final_error,    \* local final_error
    runner_log,     \* the AttemptResults the runner returned, in call order
    sleep_log,      \* the arguments sleep_fn was called with, in call order
    run_result,     \* the RunResult returned, NoRunResult before
    runtime,        \* the OrchestratorRuntime instance run_with_retry was
                    \* called on (self)
    task_id,        \* the arguments task_id and provider of the call
    provider,
    all_warnings,   \* local all_warnings
    call_log,       \* the calls of runner and sleep_fn made by the call, in
                    \* order: [fn, arg]
    previous_call,  \* the run_with_retry call that returned before this one
                    \* began: [runtime, task_id, provider]
    \* ---- OrchestratorRuntime.evaluate_terminal_state (orchestrator.py:110-118)
    required_provider_success,  \* the argument of the first call: a dict, as the
                                \* sequence of its <<provider, ok>> items in
                                \* insertion order
    other_provider_success,     \* the argument of a second, independent call
    terminal_state,             \* what the first call returned, None before
    other_terminal_state,       \* what the second call returned, None before
    \* ---- OrchestratorRuntime.should_expire (orchestrator.py:120-132)
    elapsed_seconds,
    timeout_seconds,
    grace_seconds,
    heartbeat_age_seconds,
    heartbeat_ttl_seconds,
    expire_checked,     \* whether should_expire has been called on these values
    expired,            \* what the latest should_expire call returned
    expired_before,     \* what the call before the latest returned (FALSE when
                        \* there was none)
    advanced,           \* whether the clocks have advanced since the first call
    \* ---- ShimAdapterBase (adapters/shim.py:44-300)
    environ,        \* os.environ
    success_hook,   \* which _is_success the adapter's class has
    artifact_dirs,  \* the artifact directories created so far
    spawn_log,      \* the subprocesses spawned so far: [who, env], env the
                    \* environment passed to Popen / subprocess.run
    runs,           \* the keys of self._runs
    used_ids,       \* the run_ids run() has drawn so far
    proc,           \* per run_id, the child: "unborn" | "alive" | "exited"
    exit_code,      \* the exit code of each run_id whose child has exited
    capture,        \* per run_id, the stdout/stderr capture file objects:
                    \* "unopened" | "open" | "closed"
    result_json,    \* the run_ids whose provider result JSON has been written
    signals,        \* per run_id, the signals cancel() sent: [signal, to]
    released,       \* the run_ids for which poll() has returned a terminal
                    \* status or cancel() has dropped the handle
    adapter_pc,     \* "idle", or where cancel() is suspended in time.sleep:
                    \* "cancel_sleep_term" | "cancel_sleep_kill"
    cancel_ref,     \* the run_id of the cancel() in progress, None otherwise
    last_op,        \* the latest adapter call that ended: [op, run_id, outcome]
                    \* and, of a poll() that returned, the TaskStatus
                    \* [attempt_state, completed, error_kind, message] and
                    \* the payloads it wrote to the result JSON:
                    \* recorded, a set of [exit_code, success, error_kind];
                    \* and, of a cancel(), the exception it caught
    \* ---- format_markdown_pr, format_sarif (formatters.py:36-200)
    input_findings, \* the findings the formatters are called with
    last_format,    \* the latest formatter call: its format and what it
                    \* returned
    \* ---- ShimAdapterBase driven by several threads (adapters/shim.py:152-247)
    threads,        \* per calling thread, its call of poll() or cancel() on
                    \* the one run: [op, pc, status, error_kind, closed, wrote],
                    \* pc the statement the thread is at, closed and wrote
                    \* whether the call has run _close_io and has completed
                    \* the write of the result JSON
    result_file,    \* the text of providers/<provider>.json as a reader of the
                    \* file sees it between the statements of poll(): the
                    \* payload keys it holds, in order, NoFile when absent
    \* ---- the process group of a run's child (adapters/shim.py:114-122, 230-247)
    subprocess      \* per run_id, the subprocess the child spawned in its own
                    \* process group: "none" | "alive" | "exited"

smVars == <<state, sm_call, sm_calls>>

retryVars == <<retry_policy, rr_pc, attempts, delays, final_error, runner_log,
               sleep_log, run_result, runtime, task_id, provider, all_warnings,
               call_log, previous_call>>

reducerVars == <<required_provider_success, other_provider_success,
                 terminal_state, other_terminal_state>>

expiryVars == <<elapsed_seconds, timeout_seconds, grace_seconds,
                heartbeat_age_seconds, heartbeat_ttl_seconds, expire_checked,
                expired, expired_before, advanced>>

adapterVars == <<environ, success_hook, artifact_dirs, spawn_log, runs,
                 used_ids, proc, exit_code, capture, result_json, signals,
                 released, adapter_pc, cancel_ref, last_op>>

formatterVars == <<input_findings, last_format>>

threadVars == <<threads, result_file>>

groupVars == <<subprocess>>

vars == <<smVars, retryVars, reducerVars, expiryVars, adapterVars,
          formatterVars, threadVars, groupVars>>

\* What each component's actions leave alone: the other components.
notSM ==
    <<retryVars, reducerVars, expiryVars, adapterVars, formatterVars,
      threadVars, groupVars>>
notRetry ==
    <<smVars, reducerVars, expiryVars, adapterVars, formatterVars,
      threadVars, groupVars>>
notReducer ==
    <<smVars, retryVars, expiryVars, adapterVars, formatterVars,
      threadVars, groupVars>>
notExpiry ==
    <<smVars, retryVars, reducerVars, adapterVars, formatterVars,
      threadVars, groupVars>>
notAdapter ==
    <<smVars, retryVars, reducerVars, expiryVars, formatterVars,
      threadVars, groupVars>>
notFormatter ==
    <<smVars, retryVars, reducerVars, expiryVars, adapterVars,
      threadVars, groupVars>>
\* The calls of concurrent threads act on the adapter's state as well.
notThreads ==
    <<smVars, retryVars, reducerVars, expiryVars, formatterVars, groupVars>>
notGroup ==
    <<smVars, retryVars, reducerVars, expiryVars, adapterVars, formatterVars,
      threadVars>>

None == "None"

-----------------------------------------------------------------------------
(***************************************************************************)
(* Task state machine: orchestrator.py:18-47                               *)
(***************************************************************************)

\* Longest run of transition() calls explored.
MaxTransitionCalls == 7

TaskState ==
    {"DRAFT", "QUEUED", "DISPATCHED", "RUNNING", "RETRYING", "AGGREGATING",
     "COMPLETED", "PARTIAL_SUCCESS", "FAILED", "CANCELLED", "EXPIRED"}

VALID_TRANSITIONS_WithRequeue(s) ==
    CASE s = "DRAFT"       -> {"QUEUED"}
      [] s = "QUEUED"      -> {"DISPATCHED", "CANCELLED", "EXPIRED"}
      [] s = "DISPATCHED"  -> {"RUNNING", "CANCELLED", "EXPIRED"}
      [] s = "RUNNING"     -> {"RETRYING", "AGGREGATING", "FAILED", "CANCELLED",
                               "EXPIRED", "PARTIAL_SUCCESS"}
      [] s = "RETRYING"    -> {"RUNNING", "FAILED", "EXPIRED"}
      [] s = "AGGREGATING" -> {"COMPLETED", "PARTIAL_SUCCESS", "FAILED"}
      [] s = "FAILED"      -> {"QUEUED"}
      [] OTHER             -> {}

VALID_TRANSITIONS_NoPartialAfterAggregating(s) ==
    CASE s = "DRAFT"       -> {"QUEUED"}
      [] s = "QUEUED"      -> {"DISPATCHED", "CANCELLED", "EXPIRED"}
      [] s = "DISPATCHED"  -> {"RUNNING", "CANCELLED", "EXPIRED"}
      [] s = "RUNNING"     -> {"RETRYING", "AGGREGATING", "FAILED", "CANCELLED",
                               "EXPIRED", "PARTIAL_SUCCESS"}
      [] s = "RETRYING"    -> {"RUNNING", "FAILED", "EXPIRED"}
      [] s = "AGGREGATING" -> {"COMPLETED", "FAILED"}
      [] OTHER             -> {}

VALID_TRANSITIONS(s) ==
    CASE s = "DRAFT"           -> {"QUEUED"}
      [] s = "QUEUED"          -> {"DISPATCHED", "CANCELLED", "EXPIRED"}
      [] s = "DISPATCHED"      -> {"RUNNING", "CANCELLED", "EXPIRED"}
      [] s = "RUNNING"         -> {"RETRYING", "AGGREGATING", "FAILED", "CANCELLED",
                                   "EXPIRED", "PARTIAL_SUCCESS"}
      [] s = "RETRYING"        -> {"RUNNING", "FAILED", "EXPIRED"}
      [] s = "AGGREGATING"     -> {"COMPLETED", "PARTIAL_SUCCESS", "FAILED"}
      [] s = "COMPLETED"       -> {}
      [] s = "PARTIAL_SUCCESS" -> {}
      [] s = "FAILED"          -> {}
      [] s = "CANCELLED"       -> {}
      [] s = "EXPIRED"         -> {}

NoCall == [from |-> None, next |-> None, outcome |-> None]

\* TaskStateMachine(): state defaults to DRAFT.
SMInit ==
    /\ state = "DRAFT"
    /\ sm_call = NoCall
    /\ sm_calls = 0

\* A transition that assigns without consulting the table.
transition_Unchecked(next_state) ==
    /\ UNCHANGED notSM
    /\ sm_calls < MaxTransitionCalls
    /\ sm_calls' = sm_calls + 1
    /\ state' = next_state
    /\ sm_call' = [from |-> state, next |-> next_state, outcome |-> "ok"]

\* A transition that assigns before it consults the table.
transition_AssignsFirst(next_state) ==
    /\ UNCHANGED notSM
    /\ sm_calls < MaxTransitionCalls
    /\ sm_calls' = sm_calls + 1
    /\ state' = next_state
    /\ sm_call' = [from |-> state, next |-> next_state,
                   outcome |-> IF next_state \notin VALID_TRANSITIONS(state)
                               THEN "ValueError" ELSE "ok"]

\* TaskStateMachine.transition(next_state): raise ValueError when next_state
\* is not in VALID_TRANSITIONS[self.state], else assign.
transition(next_state) ==
    /\ UNCHANGED notSM
    /\ sm_calls < MaxTransitionCalls
    /\ sm_calls' = sm_calls + 1
    /\ IF next_state \notin VALID_TRANSITIONS(state)
       THEN /\ state' = state
            /\ sm_call' = [from |-> state, next |-> next_state,
                           outcome |-> "ValueError"]
       ELSE /\ state' = next_state
            /\ sm_call' = [from |-> state, next |-> next_state, outcome |-> "ok"]

-----------------------------------------------------------------------------
(***************************************************************************)
(* Retry loop: orchestrator.py:11-15, 50-108; RetryPolicy of               *)
(* runtime/retry.py as the specification describes it (section 4.B).       *)
(***************************************************************************)

\* Largest max_retries, base delay and backoff multiplier explored.
MaxRetriesBound == 2
MaxBaseDelay == 2
MaxMultiplier == 2

ErrorKind ==
    {"RETRYABLE_TIMEOUT", "RETRYABLE_RATE_LIMIT", "RETRYABLE_TRANSIENT_NETWORK",
     "NON_RETRYABLE_AUTH", "NON_RETRYABLE_INVALID_INPUT",
     "NON_RETRYABLE_PROVIDER_ERROR", "NORMALIZATION_ERROR"}

RETRYABLE_ERRORS ==
    {"RETRYABLE_TIMEOUT", "RETRYABLE_RATE_LIMIT", "RETRYABLE_TRANSIENT_NETWORK"}

\* RetryPolicy(max_retries, base_delay_seconds, backoff_multiplier): int >= 0,
\* float >= 0, float >= 1; the delays are modelled on the integers.
RetryPolicy ==
    [max_retries : 0..MaxRetriesBound,
     base_delay_seconds : 0..MaxBaseDelay,
     backoff_multiplier : 1..MaxMultiplier]

\* RetryPolicy.compute_delay(retry_index), retry_index >= 1.
compute_delay(policy, retry_index) ==
    policy.base_delay_seconds * (policy.backoff_multiplier ^ (retry_index - 1))

WarningKind == {"PROVIDER_WARNING_MCP_STARTUP"}

\* What a runner call can return: success, or a failure carrying an error
\* kind or no error kind at all; here without warnings and without output.
AttemptResult ==
    {[success |-> TRUE, error_kind |-> None, output |-> None,
      warnings |-> <<>>]}
    \cup {[success |-> FALSE, error_kind |-> k, output |-> None,
           warnings |-> <<>>] : k \in ErrorKind \cup {None}}

\* What a runner call can return, with or without a warning and an output:
\* success, or a failure that is retryable, not retryable, or of no kind.
AttemptResultWithWarnings ==
    [success : {TRUE}, error_kind : {None},
     output : {None, "ok"},
     warnings : {<<>>, <<"PROVIDER_WARNING_MCP_STARTUP">>}]
    \cup [success : {FALSE},
          error_kind : {"RETRYABLE_RATE_LIMIT", "NON_RETRYABLE_AUTH", None},
          output : {None, "partial"},
          warnings : {<<>>, <<"PROVIDER_WARNING_MCP_STARTUP">>}]

\* The callers of run_with_retry: the instance, the task and the provider.
Runtimes == {"runtime_a", "runtime_b"}
TaskIds == {"task-4", "task-r2"}
CallProviders == {"opencode"}

NoEarlierCall == [runtime |-> None, task_id |-> None, provider |-> None]

\* No RunResult: what run_result holds until the call returns.
NoRunResult ==
    [task_id |-> None, provider |-> None, success |-> FALSE, attempts |-> 0,
     delays_seconds |-> <<>>, output |-> None, final_error |-> None,
     warnings |-> <<>>]

\* The locals and the logs of a call that has not begun.
RetryLocalsIdle ==
    /\ rr_pc = "idle"
    /\ attempts = 0
    /\ delays = <<>>
    /\ final_error = None
    /\ runner_log = <<>>
    /\ sleep_log = <<>>
    /\ run_result = NoRunResult
    /\ runtime = None
    /\ task_id = None
    /\ provider = None
    /\ all_warnings = <<>>
    /\ call_log = <<>>
    /\ previous_call = NoEarlierCall

\* OrchestratorRuntime(retry_policy, sleep_fn)
RetryInit ==
    /\ retry_policy \in RetryPolicy
    /\ RetryLocalsIdle

RetryIdle ==
    /\ retry_policy = [max_retries |-> 0, base_delay_seconds |-> 0,
                       backoff_multiplier |-> 1]
    /\ RetryLocalsIdle

\* result.error_kind or ErrorKind.NORMALIZATION_ERROR, without the coercion.
CoerceErrorKind_Keep(error_kind) == error_kind

\* result.error_kind or ErrorKind.NORMALIZATION_ERROR
CoerceErrorKind(error_kind) ==
    IF error_kind = None THEN "NORMALIZATION_ERROR" ELSE error_kind

\* A retry check with the budget test off by one.
should_retry_StrictBudget(err, n, policy) ==
    err \in RETRYABLE_ERRORS /\ n < policy.max_retries

\* A retry check that takes every kind but the authentication failure for
\* retryable.
should_retry_AllButAuth(err, n, policy) ==
    err # "NON_RETRYABLE_AUTH" /\ n <= policy.max_retries

\* A retry check that forgets the retryable set.
should_retry_AnyKind(err, n, policy) ==
    n <= policy.max_retries

\* A retry check that allows one retry more than the budget.
should_retry_OneMore(err, n, policy) ==
    err \in RETRYABLE_ERRORS /\ n <= policy.max_retries + 1

\* should_retry = final_error in RETRYABLE_ERRORS
\*                and attempts <= self.retry_policy.max_retries
should_retry(err, n, policy) ==
    err \in RETRYABLE_ERRORS /\ n <= policy.max_retries

\* A delay that is slept but not recorded.
record_delay_Dropped(ds, delay_seconds) == ds

\* delays.append(delay_seconds)
record_delay(ds, delay_seconds) == Append(ds, delay_seconds)

\* An attempt counter that skips a number.
next_attempt_Skips(n) == n + 2

\* attempts += 1
next_attempt(n) == n + 1

\* Warnings that are kept only of the attempts that succeeded.
extend_warnings_OfSuccessOnly(warnings, result) ==
    IF result.success THEN warnings \o result.warnings ELSE warnings

\* all_warnings.extend(result.warnings)
extend_warnings(warnings, result) == warnings \o result.warnings

\* A call that goes on from the locals of the call before it.
run_with_retry_enter_KeepsLocals(self, task, for_provider) ==
    /\ UNCHANGED notRetry
    /\ rr_pc \in {"idle", "returned"}
    /\ rr_pc' = "loop"
    /\ run_result' = NoRunResult
    /\ runtime' = self
    /\ task_id' = task
    /\ provider' = for_provider
    /\ previous_call' =
          IF rr_pc = "returned"
          THEN [runtime |-> runtime, task_id |-> task_id,
                provider |-> provider]
          ELSE previous_call
    /\ runner_log' = <<>>
    /\ sleep_log' = <<>>
    /\ call_log' = <<>>
    /\ UNCHANGED <<retry_policy, attempts, delays, final_error, all_warnings>>

\* run_with_retry entry: the locals before the loop.
run_with_retry_enter(self, task, for_provider) ==
    /\ UNCHANGED notRetry
    /\ rr_pc \in {"idle", "returned"}
    /\ rr_pc' = "loop"
    /\ attempts' = 0
    /\ delays' = <<>>
    /\ all_warnings' = <<>>
    /\ final_error' = None
    /\ runner_log' = <<>>
    /\ sleep_log' = <<>>
    /\ call_log' = <<>>
    /\ run_result' = NoRunResult
    /\ runtime' = self
    /\ task_id' = task
    /\ provider' = for_provider
    /\ previous_call' =
          IF rr_pc = "returned"
          THEN [runtime |-> runtime, task_id |-> task_id,
                provider |-> provider]
          ELSE previous_call
    /\ UNCHANGED retry_policy

\* One pass of the while loop: call the runner, then return or record a
\* delay and sleep.
run_with_retry_iteration(result) ==
    /\ UNCHANGED notRetry
    /\ rr_pc = "loop"
    /\ attempts' = next_attempt(attempts)
    /\ runner_log' = Append(runner_log, result)
    /\ all_warnings' = extend_warnings(all_warnings, result)
    /\ UNCHANGED <<retry_policy, runtime, task_id, provider, previous_call>>
    /\ IF result.success
       THEN /\ run_result' = [task_id |-> task_id,
                              provider |-> provider,
                              success |-> TRUE,
                              attempts |-> attempts',
                              delays_seconds |-> delays,
                              output |-> result.output,
                              final_error |-> None,
                              warnings |-> all_warnings']
            /\ rr_pc' = "returned"
            /\ call_log' = Append(call_log,
                                  [fn |-> "runner", arg |-> attempts'])
            /\ UNCHANGED <<delays, final_error, sleep_log>>
       ELSE LET err == CoerceErrorKind(result.error_kind) IN
            /\ final_error' = err
            /\ IF ~should_retry(err, attempts', retry_policy)
               THEN /\ run_result' = [task_id |-> task_id,
                                      provider |-> provider,
                                      success |-> FALSE,
                                      attempts |-> attempts',
                                      delays_seconds |-> delays,
                                      output |-> result.output,
                                      final_error |-> err,
                                      warnings |-> all_warnings']
                    /\ rr_pc' = "returned"
                    /\ call_log' = Append(call_log,
                                          [fn |-> "runner", arg |-> attempts'])
                    /\ UNCHANGED <<delays, sleep_log>>
               ELSE LET delay_seconds ==
                            compute_delay(retry_policy, attempts') IN
                    /\ delays' = record_delay(delays, delay_seconds)
                    /\ sleep_log' = Append(sleep_log, delay_seconds)
                    /\ call_log' = call_log
                                     \o <<[fn |-> "runner", arg |-> attempts'],
                                          [fn |-> "sleep_fn",
                                           arg |-> delay_seconds]>>
                    /\ UNCHANGED <<run_result, rr_pc>>

\* One caller, and runners that return neither warnings nor output.
RetryNext ==
    \/ run_with_retry_enter("runtime_a", "task-4", "opencode")
    \/ \E result \in AttemptResult : run_with_retry_iteration(result)

\* Call after call, on either instance and for either task, with runners that
\* return warnings and output.
RetryCallsNext ==
    \/ \E self \in Runtimes, task \in TaskIds, for_provider \in CallProviders :
          run_with_retry_enter(self, task, for_provider)
    \/ \E result \in AttemptResultWithWarnings : run_with_retry_iteration(result)

-----------------------------------------------------------------------------
(***************************************************************************)
(* Terminal-state reducer: orchestrator.py:110-118                         *)
(***************************************************************************)

Providers == {"claude", "codex", "qwen"}

\* Every Dict[str, bool] over Providers: the sequences of <<provider, ok>>
\* items with pairwise distinct keys (a dict keeps its insertion order).
ProviderSuccessDicts ==
    UNION {
        {d \in [1..n -> Providers \X BOOLEAN] :
            \A i, j \in 1..n : (i # j) => (d[i][1] # d[j][1])}
        : n \in 0..Cardinality(Providers)}

\* sum(1 for ok in d.values() if ok)
RECURSIVE CountSuccesses(_)
CountSuccesses(d) ==
    IF d = <<>> THEN 0
    ELSE (IF Head(d)[2] THEN 1 ELSE 0) + CountSuccesses(Tail(d))

\* A reducer that gives up at the first provider it iterates when that one
\* failed.
evaluate_terminal_state_FirstDecides(d) ==
    IF Len(d) = 0 THEN "FAILED"
    ELSE IF ~d[1][2] THEN "FAILED"
    ELSE IF CountSuccesses(d) = Len(d) THEN "COMPLETED"
    ELSE "PARTIAL_SUCCESS"

\* A reducer without the zero-successes test.
evaluate_terminal_state_NoZeroTest(d) ==
    IF Len(d) = 0 THEN "FAILED"
    ELSE IF CountSuccesses(d) = Len(d) THEN "COMPLETED"
    ELSE "PARTIAL_SUCCESS"

\* OrchestratorRuntime.evaluate_terminal_state(required_provider_success)
evaluate_terminal_state(d) ==
    IF Len(d) = 0 THEN "FAILED"
    ELSE LET successes == CountSuccesses(d) IN
         IF successes = 0 THEN "FAILED"
         ELSE IF successes = Len(d) THEN "COMPLETED"
         ELSE "PARTIAL_SUCCESS"

\* Two provider->success maps, not yet reduced.
ReducerInit ==
    /\ required_provider_success \in ProviderSuccessDicts
    /\ other_provider_success \in ProviderSuccessDicts
    /\ terminal_state = None
    /\ other_terminal_state = None

ReducerIdle ==
    /\ required_provider_success = <<>>
    /\ other_provider_success = <<>>
    /\ terminal_state = None
    /\ other_terminal_state = None

\* runtime.evaluate_terminal_state(required_provider_success)
EvaluateTerminalState ==
    /\ UNCHANGED notReducer
    /\ terminal_state = None
    /\ terminal_state' = evaluate_terminal_state(required_provider_success)
    /\ UNCHANGED <<required_provider_success, other_provider_success,
                   other_terminal_state>>

\* runtime.evaluate_terminal_state(other_provider_success)
EvaluateOtherTerminalState ==
    /\ UNCHANGED notReducer
    /\ other_terminal_state = None
    /\ other_terminal_state' = evaluate_terminal_state(other_provider_success)
    /\ UNCHANGED <<required_provider_success, other_provider_success,
                   terminal_state>>

ReducerNext == EvaluateTerminalState \/ EvaluateOtherTerminalState

-----------------------------------------------------------------------------
(***************************************************************************)
(* Expiry predicate: orchestrator.py:120-132                               *)
(***************************************************************************)

\* Largest timeout, grace and heartbeat TTL explored (seconds, modelled on
\* the integers); the clocks run one past the largest limit.
MaxSeconds == 2

\* A predicate whose timeout comparison is not strict.
should_expire_NonStrict(e, t, g, h, ttl) ==
    IF e >= (t + g) THEN TRUE
    ELSE IF h > ttl THEN TRUE
    ELSE FALSE

\* A predicate that lets a fresh-enough heartbeat veto the timeout.
should_expire_HeartbeatVeto(e, t, g, h, ttl) ==
    IF h > ttl THEN TRUE
    ELSE IF h = ttl THEN FALSE
    ELSE IF e > (t + g) THEN TRUE
    ELSE FALSE

\* OrchestratorRuntime.should_expire(elapsed_seconds, timeout_seconds,
\*     grace_seconds, heartbeat_age_seconds, heartbeat_ttl_seconds)
should_expire(e, t, g, h, ttl) ==
    IF e > (t + g) THEN TRUE
    ELSE IF h > ttl THEN TRUE
    ELSE FALSE

\* The limits of a run and its two clocks at some moment.
ExpiryInit ==
    /\ timeout_seconds \in 0..MaxSeconds
    /\ grace_seconds \in 0..MaxSeconds
    /\ heartbeat_ttl_seconds \in 0..MaxSeconds
    /\ elapsed_seconds \in 0..(2 * MaxSeconds + 1)
    /\ heartbeat_age_seconds \in 0..(MaxSeconds + 1)
    /\ expire_checked = FALSE
    /\ expired = FALSE
    /\ expired_before = FALSE
    /\ advanced = FALSE

ExpiryIdle ==
    /\ timeout_seconds = 0
    /\ grace_seconds = 0
    /\ heartbeat_ttl_seconds = 0
    /\ elapsed_seconds = 0
    /\ heartbeat_age_seconds = 0
    /\ expire_checked = FALSE
    /\ expired = FALSE
    /\ expired_before = FALSE
    /\ advanced = FALSE

\* The polling engine evaluates should_expire on the current clocks.
ShouldExpireCall ==
    /\ UNCHANGED notExpiry
    /\ ~expire_checked
    /\ expire_checked' = TRUE
    /\ expired' = should_expire(elapsed_seconds, timeout_seconds, grace_seconds,
                                heartbeat_age_seconds, heartbeat_ttl_seconds)
    /\ UNCHANGED <<elapsed_seconds, timeout_seconds, grace_seconds,
                   heartbeat_age_seconds, heartbeat_ttl_seconds,
                   expired_before, advanced>>

\* Time advances (either clock, by any amount, the limits unchanged) and the
\* engine evaluates should_expire again.
AdvanceAndShouldExpireCall(de, dh) ==
    /\ UNCHANGED notExpiry
    /\ expire_checked
    /\ de + dh > 0
    /\ elapsed_seconds + de <= 2 * MaxSeconds + 1
    /\ heartbeat_age_seconds + dh <= MaxSeconds + 1
    /\ elapsed_seconds' = elapsed_seconds + de
    /\ heartbeat_age_seconds' = heartbeat_age_seconds + dh
    /\ expired_before' = expired
    /\ advanced' = TRUE
    /\ expired' = should_expire(elapsed_seconds + de, timeout_seconds,
                                grace_seconds, heartbeat_age_seconds + dh,
                                heartbeat_ttl_seconds)
    /\ UNCHANGED <<timeout_seconds, grace_seconds, heartbeat_ttl_seconds,
                   expire_checked>>

ExpiryNext ==
    \/ ShouldExpireCall
    \/ \E de \in 0..(2 * MaxSeconds + 1), dh \in 0..(MaxSeconds + 1) :
          AdvanceAndShouldExpireCall(de, dh)

-----------------------------------------------------------------------------
(***************************************************************************)
(* Provider adapter: adapters/shim.py:44-300                               *)
(***************************************************************************)

\* The run_ids run() can draw (f"{self.id}-{uuid.uuid4().hex[:12]}"): two runs
\* of one adapter.
RunIds == {"claude-0a", "claude-0b"}

\* A run_id no run() of this adapter draws: the ref of another adapter, or of
\* an adapter that is gone.
UnknownRunId == "claude-ff"

\* The run_ids a caller can hold in a TaskRunRef: the ones run() has drawn
\* (uuid4 run_ids are fresh, so no caller holds one before run() draws it),
\* and the unknown one.
known_refs == used_ids \cup {UnknownRunId}

RefIds == RunIds \cup {UnknownRunId}

\* Longest signal log kept per run: a cancel() of a live child starts only
\* while its SIGTERM and SIGKILL still fit.
MaxSignals == 4

\* The exit codes a child ends with.
ExitCodes == {0, 1}

\* The _is_success a subclass supplies: the base class's, or an override.
SuccessHooks == {"default", "override"}

\* Captured stdout, as far as a success hook reads it: nothing, or a findings
\* payload.
StdoutTexts == {"", "findings"}

\* Captured stderr, as the set of marker classes its text contains.
StderrTexts == {{}, {"auth"}, {"timeout", "auth"}}

\* os.environ: a mapping from some of these names to values.
EnvNames == {"PATH", "CLAUDECODE", "HOME"}

EnvValues == {"1", "/usr/bin"}

Environs == UNION {[names -> EnvValues] : names \in SUBSET EnvNames}

\* The ambient environment of the adapter's own specification.
AmbientEnv == [n \in {"PATH", "CLAUDECODE"} |->
                  IF n = "PATH" THEN "/usr/bin" ELSE "1"]

ENV_VARS_TO_STRIP == {"CLAUDECODE"}

sanitize_env_NoStrip(ambient) == ambient

\* _sanitize_env(): env = os.environ.copy(); env.pop(key, None) for each key
\* to strip; return env.
sanitize_env(ambient) ==
    [k \in (DOMAIN ambient) \ ENV_VARS_TO_STRIP |-> ambient[k]]

\* The subprocesses the adapter spawns.
Spawners == RunIds \cup {"version_probe", "auth_probe"}

\* No call has ended yet. `completed` is a boolean in every record; it means
\* something only in the record of a poll() that returned.
NoOp == [op |-> None, run_id |-> None, outcome |-> None, attempt_state |-> None,
         completed |-> FALSE, error_kind |-> None, message |-> None,
         recorded |-> {}, caught |-> None]

\* A call that returned nothing, or raised.
Ended(op, r, outcome) ==
    [NoOp EXCEPT !.op = op, !.run_id = r, !.outcome = outcome]

\* poll() returned TaskStatus(...).
TaskStatus(r, attempt_state, completed, error_kind, message) ==
    [op |-> "poll", run_id |-> r, outcome |-> "returned",
     attempt_state |-> attempt_state, completed |-> completed,
     error_kind |-> error_kind, message |-> message, recorded |-> {},
     caught |-> None]

\* ShimAdapterBase.__init__: self._runs = {}
AdapterInit ==
    /\ runs = {}
    /\ used_ids = {}
    /\ proc = [r \in RunIds |-> "unborn"]
    /\ exit_code = [r \in {} |-> 0]
    /\ capture = [r \in RunIds |-> "unopened"]
    /\ result_json = {}
    /\ signals = [r \in RunIds |-> <<>>]
    /\ adapter_pc = "idle"
    /\ cancel_ref = None
    /\ last_op = NoOp
    /\ released = {}
    /\ spawn_log = {}
    /\ artifact_dirs = {}

\* A subclass's _is_success override: the run succeeded when its stdout
\* carries findings, whatever the exit code.
override_is_success(return_code, stdout_text, stderr_text) ==
    stdout_text = "findings"

\* self._is_success(return_code, stdout_text, stderr_text); the base class's
\* is return_code == 0.
is_success(return_code, stdout_text, stderr_text) ==
    IF success_hook = "default"
    THEN return_code = 0
    ELSE override_is_success(return_code, stdout_text, stderr_text)

\* classify_error(exit_code, stderr_text): the first marker class found, in
\* priority order.
classify_error(return_code, stderr_text) ==
    IF "timeout" \in stderr_text THEN "RETRYABLE_TIMEOUT"
    ELSE IF "rate_limit" \in stderr_text THEN "RETRYABLE_RATE_LIMIT"
    ELSE IF "network" \in stderr_text THEN "RETRYABLE_TRANSIENT_NETWORK"
    ELSE IF "auth" \in stderr_text THEN "NON_RETRYABLE_AUTH"
    ELSE "NON_RETRYABLE_PROVIDER_ERROR"

\* process.returncode becomes `code`.
set_returncode(r, code) ==
    [x \in (DOMAIN exit_code) \cup {r} |-> IF x = r THEN code ELSE exit_code[x]]

\* handle.process.poll() is None: the child has not exited.
process_alive(r) == proc[r] = "alive"

\* _close_io(handle): both capture files closed, close errors swallowed.
close_io(r) == [capture EXCEPT ![r] = "closed"]

\* The child of run r ends on its own, or because of a signal it received.
ChildExits(r, code) ==
    /\ UNCHANGED notAdapter
    /\ proc[r] = "alive"
    /\ proc' = [proc EXCEPT ![r] = "exited"]
    /\ exit_code' = set_returncode(r, code)
    /\ UNCHANGED <<runs, used_ids, capture, result_json,
                   signals, adapter_pc, cancel_ref, last_op, released,
                   environ, spawn_log, success_hook,
                   artifact_dirs>>

\* detect(): no binary on the sanitized PATH -> no subprocess; otherwise the
\* version probe and the auth probe, each spawned with _sanitize_env().
detect(found) ==
    /\ UNCHANGED notAdapter
    /\ adapter_pc = "idle"
    /\ IF found
       THEN spawn_log' = spawn_log \cup
                {[who |-> "version_probe", env |-> sanitize_env(environ)],
                 [who |-> "auth_probe", env |-> sanitize_env(environ)]}
       ELSE UNCHANGED spawn_log
    /\ last_op' = Ended("detect", None, "returned")
    /\ UNCHANGED <<runs, used_ids, proc, exit_code, capture, result_json,
                   signals, adapter_pc, cancel_ref, released,
                   environ, success_hook,
                   artifact_dirs>>

\* What metadata.get("command_override") and self._build_command(input_task)
\* can be: an empty list, a list of arguments, or something that is not a list
\* (None, a string, a tuple).
CommandValues ==
    {[is_list |-> TRUE, items |-> <<>>],
     [is_list |-> TRUE, items |-> <<"bin", "--json">>],
     [is_list |-> FALSE, items |-> <<"bin", "--json">>]}

\* cmd = command_override if isinstance(command_override, list)
\*       else self._build_command(input_task)
resolve_command(command_override, built_command) ==
    IF command_override.is_list THEN command_override ELSE built_command

command_refused_NoTypeCheck(cmd) == cmd.items = <<>>

\* not isinstance(cmd, list) or not cmd
command_refused(cmd) == ~cmd.is_list \/ cmd.items = <<>>

\* paths["providers_dir"].mkdir(...); paths["raw_dir"].mkdir(...)
ArtifactDirs == {"providers_dir", "raw_dir"}

\* run(input_task) with a command that is refused: ValueError before any
\* effect.
run_empty_command(command_override, built_command) ==
    /\ UNCHANGED notAdapter
    /\ adapter_pc = "idle"
    /\ command_refused(resolve_command(command_override, built_command))
    /\ last_op' = Ended("run", None, "ValueError")
    /\ UNCHANGED <<runs, used_ids, proc, exit_code, capture, result_json,
                   signals, adapter_pc, cancel_ref, released,
                   environ, spawn_log, success_hook, artifact_dirs>>

\* run(input_task) with a command that is accepted: the artifact directories
\* created, a fresh run_id, the capture files opened, the child spawned in a
\* new session with _sanitize_env() and the handle registered; when Popen
\* raises, the files stay open and no handle is registered.
run(r, command_override, built_command, spawned) ==
    /\ UNCHANGED notAdapter
    /\ adapter_pc = "idle"
    /\ ~command_refused(resolve_command(command_override, built_command))
    /\ artifact_dirs' = artifact_dirs \cup ArtifactDirs
    /\ r \notin used_ids
    /\ used_ids' = used_ids \cup {r}
    /\ capture' = [capture EXCEPT ![r] = "open"]
    /\ IF spawned
       THEN /\ proc' = [proc EXCEPT ![r] = "alive"]
            /\ spawn_log' = spawn_log \cup
                                {[who |-> r, env |-> sanitize_env(environ)]}
            /\ runs' = runs \cup {r}
            /\ last_op' = Ended("run", r, "returned")
       ELSE /\ last_op' = Ended("run", r, "OSError")
            /\ UNCHANGED <<proc, runs, spawn_log>>
    /\ UNCHANGED <<exit_code, result_json, signals, adapter_pc,
                   cancel_ref, released, environ, success_hook>>

poll_ExitCodeDecides(r, written, stdout_text, stderr_text) ==
    /\ UNCHANGED notAdapter
    /\ adapter_pc = "idle"
    /\ r \in known_refs
    /\ IF r \notin runs
       THEN /\ last_op' = TaskStatus(r, "EXPIRED", TRUE,
                                     "NON_RETRYABLE_INVALID_INPUT",
                                     "run_handle_not_found")
            /\ released' = released \cup {r}
            /\ UNCHANGED <<runs, capture, result_json>>
       ELSE IF process_alive(r)
       THEN /\ last_op' = TaskStatus(r, "STARTED", FALSE, None, "running")
            /\ UNCHANGED <<runs, capture, result_json, released>>
       ELSE LET return_code == exit_code[r]
                success == return_code = 0
                error_kind == IF success THEN None
                              ELSE classify_error(return_code, stderr_text)
            IN  /\ capture' = close_io(r)
                /\ result_json' = result_json \cup {r}
                /\ runs' = runs \ {r}
                /\ released' = released \cup {r}
                /\ last_op' =
                      [TaskStatus(r,
                           IF success THEN "SUCCEEDED" ELSE "FAILED",
                           TRUE, error_kind, "completed")
                       EXCEPT !.recorded =
                           {[exit_code |-> return_code,
                             success |-> success,
                             error_kind |-> error_kind]}]
    /\ UNCHANGED <<used_ids, proc, exit_code, signals, adapter_pc, cancel_ref,
                   environ, spawn_log, success_hook,
                   artifact_dirs>>

poll_AlwaysClassifies(r, written, stdout_text, stderr_text) ==
    /\ UNCHANGED notAdapter
    /\ adapter_pc = "idle"
    /\ r \in known_refs
    /\ IF r \notin runs
       THEN /\ last_op' = TaskStatus(r, "EXPIRED", TRUE,
                                     "NON_RETRYABLE_INVALID_INPUT",
                                     "run_handle_not_found")
            /\ released' = released \cup {r}
            /\ UNCHANGED <<runs, capture, result_json>>
       ELSE IF process_alive(r)
       THEN /\ last_op' = TaskStatus(r, "STARTED", FALSE, None, "running")
            /\ UNCHANGED <<runs, capture, result_json, released>>
       ELSE LET return_code == exit_code[r]
                success == is_success(return_code, stdout_text, stderr_text)
                error_kind == classify_error(return_code, stderr_text)
            IN  /\ capture' = close_io(r)
                /\ result_json' = result_json \cup {r}
                /\ runs' = runs \ {r}
                /\ released' = released \cup {r}
                /\ last_op' =
                      [TaskStatus(r,
                           IF success THEN "SUCCEEDED" ELSE "FAILED",
                           TRUE, error_kind, "completed")
                       EXCEPT !.recorded =
                           {[exit_code |-> return_code,
                             success |-> success,
                             error_kind |-> error_kind]}]
    /\ UNCHANGED <<used_ids, proc, exit_code, signals, adapter_pc, cancel_ref,
                   environ, spawn_log, success_hook,
                   artifact_dirs>>

poll_NeverReaps(r, written, stdout_text, stderr_text) ==
    /\ UNCHANGED notAdapter
    /\ adapter_pc = "idle"
    /\ r \in known_refs
    /\ IF r \notin runs
       THEN /\ last_op' = TaskStatus(r, "EXPIRED", TRUE,
                                     "NON_RETRYABLE_INVALID_INPUT",
                                     "run_handle_not_found")
            /\ released' = released \cup {r}
       ELSE /\ last_op' = TaskStatus(r, "STARTED", FALSE, None, "running")
            /\ UNCHANGED released
    /\ UNCHANGED <<runs, capture, result_json, used_ids, proc, exit_code,
                   signals, adapter_pc, cancel_ref, environ, spawn_log,
                   success_hook,
                   artifact_dirs>>

poll_MissingHandleStarted(r, written, stdout_text, stderr_text) ==
    /\ UNCHANGED notAdapter
    /\ adapter_pc = "idle"
    /\ r \in known_refs
    /\ IF r \in runs /\ ~process_alive(r)
       THEN LET return_code == exit_code[r]
                success == is_success(return_code, stdout_text, stderr_text)
                error_kind == IF success THEN None
                              ELSE classify_error(return_code, stderr_text)
            IN  /\ capture' = close_io(r)
                /\ result_json' = result_json \cup {r}
                /\ runs' = runs \ {r}
                /\ released' = released \cup {r}
                /\ last_op' = TaskStatus(r,
                                  IF success THEN "SUCCEEDED" ELSE "FAILED",
                                  TRUE, error_kind, "completed")
       ELSE /\ last_op' = TaskStatus(r, "STARTED", FALSE, None, "running")
            /\ UNCHANGED <<runs, capture, result_json, released>>
    /\ UNCHANGED <<used_ids, proc, exit_code, signals, adapter_pc, cancel_ref,
                   environ, spawn_log, success_hook,
                   artifact_dirs>>

poll_WriteFailureReported(r, written, stdout_text, stderr_text) ==
    /\ UNCHANGED notAdapter
    /\ adapter_pc = "idle"
    /\ r \in known_refs
    /\ IF r \notin runs
       THEN /\ last_op' = TaskStatus(r, "EXPIRED", TRUE,
                                     "NON_RETRYABLE_INVALID_INPUT",
                                     "run_handle_not_found")
            /\ released' = released \cup {r}
            /\ UNCHANGED <<runs, capture, result_json>>
       ELSE IF process_alive(r)
       THEN /\ last_op' = TaskStatus(r, "STARTED", FALSE, None, "running")
            /\ UNCHANGED <<runs, capture, result_json, released>>
       ELSE LET return_code == exit_code[r]
                success == is_success(return_code, stdout_text, stderr_text)
                error_kind == IF success THEN None
                              ELSE classify_error(return_code, stderr_text)
            IN  /\ capture' = close_io(r)
                /\ IF written
                   THEN /\ result_json' = result_json \cup {r}
                        /\ runs' = runs \ {r}
                        /\ released' = released \cup {r}
                        /\ last_op' =
                              [TaskStatus(r,
                                   IF success THEN "SUCCEEDED" ELSE "FAILED",
                                   TRUE, error_kind, "completed")
                               EXCEPT !.recorded =
                                   {[exit_code |-> return_code,
                                     success |-> success,
                                     error_kind |-> error_kind]}]
                   ELSE /\ last_op' = TaskStatus(r, "FAILED", TRUE,
                                           "NON_RETRYABLE_PROVIDER_ERROR",
                                           "completed")
                        /\ runs' = runs \ {r}
                        /\ released' = released \cup {r}
                        /\ UNCHANGED result_json
    /\ UNCHANGED <<used_ids, proc, exit_code, signals, adapter_pc, cancel_ref,
                   environ, spawn_log, success_hook,
                   artifact_dirs>>

\* poll(ref): no handle -> the synthetic EXPIRED status; child alive ->
\* STARTED; child exited -> close the capture files, read them, decide
\* success, classify a failure, write the result JSON (which may raise), drop
\* the handle and return SUCCEEDED or FAILED.
poll(r, written, stdout_text, stderr_text) ==
    /\ UNCHANGED notAdapter
    /\ adapter_pc = "idle"
    /\ r \in known_refs
    /\ IF r \notin runs
       THEN /\ last_op' = TaskStatus(r, "EXPIRED", TRUE,
                                     "NON_RETRYABLE_INVALID_INPUT",
                                     "run_handle_not_found")
            /\ released' = released \cup {r}
            /\ UNCHANGED <<runs, capture, result_json>>
       ELSE IF process_alive(r)
       THEN /\ last_op' = TaskStatus(r, "STARTED", FALSE, None, "running")
            /\ UNCHANGED <<runs, capture, result_json, released>>
       ELSE LET return_code == exit_code[r]
                success == is_success(return_code, stdout_text, stderr_text)
                error_kind == IF success THEN None
                              ELSE classify_error(return_code, stderr_text)
            IN  /\ capture' = close_io(r)
                /\ IF written
                   THEN /\ result_json' = result_json \cup {r}
                        /\ runs' = runs \ {r}
                        /\ released' = released \cup {r}
                        /\ last_op' =
                              [TaskStatus(r,
                                   IF success THEN "SUCCEEDED" ELSE "FAILED",
                                   TRUE, error_kind, "completed")
                               EXCEPT !.recorded =
                                   {[exit_code |-> return_code,
                                     success |-> success,
                                     error_kind |-> error_kind]}]
                   ELSE /\ last_op' = Ended("poll", r, "OSError")
                        /\ UNCHANGED <<runs, result_json,
                                       released>>
    /\ UNCHANGED <<used_ids, proc, exit_code, signals, adapter_pc, cancel_ref,
                   environ, spawn_log, success_hook,
                   artifact_dirs>>

\* What os.killpg(os.getpgid(pid), sig) can do: deliver the signal, or raise
\* ProcessLookupError (the child is gone), or raise another OSError.
KillpgOutcomes == {"sent", "ProcessLookupError", "PermissionError"}

killpg_step_LookupErrorPropagates(r, sig, outcome, next_pc) ==
    CASE outcome = "sent" ->
            /\ signals' = [signals EXCEPT
                              ![r] = Append(@, [signal |-> sig, to |-> "pgid"])]
            /\ adapter_pc' = next_pc
            /\ cancel_ref' = r
            /\ UNCHANGED <<runs, capture, proc, exit_code, last_op, released>>
      [] outcome \in {"ProcessLookupError", "PermissionError"} ->
            /\ adapter_pc' = "idle"
            /\ cancel_ref' = None
            /\ last_op' = Ended("cancel", r, outcome)
            /\ UNCHANGED <<runs, capture, proc, exit_code, signals, released>>

\* The effect of one killpg on run r, up to the next suspension or return.
\*   sent: the signal to the process group is logged and cancel() sleeps
\*         (next_pc);
\*   ProcessLookupError: the child is gone; close, drop the handle, return;
\*   another OSError: propagates to the caller, nothing released.
killpg_step(r, sig, outcome, next_pc) ==
    CASE outcome = "sent" ->
            /\ signals' = [signals EXCEPT
                              ![r] = Append(@, [signal |-> sig, to |-> "pgid"])]
            /\ adapter_pc' = next_pc
            /\ cancel_ref' = r
            /\ UNCHANGED <<runs, capture, proc, exit_code, last_op, released>>
      [] outcome = "ProcessLookupError" ->
            /\ proc' = [proc EXCEPT ![r] = "exited"]
            /\ exit_code' = set_returncode(r, 1)
            /\ capture' = close_io(r)
            /\ runs' = runs \ {r}
            /\ released' = released \cup {r}
            /\ adapter_pc' = "idle"
            /\ cancel_ref' = None
            /\ last_op' = [Ended("cancel", r, "returned")
                           EXCEPT !.caught = "ProcessLookupError"]
            /\ UNCHANGED signals
      [] outcome = "PermissionError" ->
            /\ adapter_pc' = "idle"
            /\ cancel_ref' = None
            /\ last_op' = Ended("cancel", r, "PermissionError")
            /\ UNCHANGED <<runs, capture, proc, exit_code, signals, released>>

\* cancel(ref) returns: with `release`, after closing the capture files and
\* dropping the handle.
cancel_return(r, release) ==
    /\ IF release
       THEN /\ capture' = close_io(r)
            /\ runs' = runs \ {r}
            /\ released' = released \cup {r}
       ELSE UNCHANGED <<capture, runs, released>>
    /\ adapter_pc' = "idle"
    /\ cancel_ref' = None
    /\ last_op' = Ended("cancel", r, "returned")
    /\ UNCHANGED <<proc, exit_code, signals>>

cancel_begin_SignalsExited(r, outcome) ==
    /\ UNCHANGED notAdapter
    /\ adapter_pc = "idle"
    /\ r \in known_refs
    /\ r \in runs => (Len(signals[r]) + 2 <= MaxSignals)
    /\ IF r \notin runs
       THEN cancel_return(r, FALSE)
       ELSE killpg_step(r, "SIGTERM", outcome, "cancel_sleep_term")
    /\ UNCHANGED <<used_ids, result_json, environ, spawn_log, success_hook,
                   artifact_dirs>>

\* cancel(ref), lines 223-236: no handle -> return; child exited -> close, drop,
\* return; else SIGTERM to the process group and sleep 0.2 s.
cancel_begin(r, outcome) ==
    /\ UNCHANGED notAdapter
    /\ adapter_pc = "idle"
    /\ r \in known_refs
    /\ (r \in runs /\ process_alive(r)) => (Len(signals[r]) + 2 <= MaxSignals)
    /\ IF r \notin runs
       THEN cancel_return(r, FALSE)
       ELSE IF ~process_alive(r)
       THEN cancel_return(r, TRUE)
       ELSE killpg_step(r, "SIGTERM", outcome, "cancel_sleep_term")
    /\ UNCHANGED <<used_ids, result_json, environ, spawn_log,
                   success_hook,
                   artifact_dirs>>

cancel_after_term_wait_AlwaysKills(outcome) ==
    /\ UNCHANGED notAdapter
    /\ adapter_pc = "cancel_sleep_term"
    /\ killpg_step(cancel_ref, "SIGKILL", outcome, "cancel_sleep_kill")
    /\ UNCHANGED <<used_ids, result_json, environ, spawn_log, success_hook,
                   artifact_dirs>>

\* cancel(ref), lines 237-247 after the 0.2 s sleep: child still alive ->
\* SIGKILL to the process group and sleep 0.1 s; child exited -> close, drop,
\* return.
cancel_after_term_wait(outcome) ==
    /\ UNCHANGED notAdapter
    /\ adapter_pc = "cancel_sleep_term"
    /\ IF process_alive(cancel_ref)
       THEN killpg_step(cancel_ref, "SIGKILL", outcome, "cancel_sleep_kill")
       ELSE cancel_return(cancel_ref, TRUE)
    /\ UNCHANGED <<used_ids, result_json, environ, spawn_log,
                   success_hook,
                   artifact_dirs>>

\* cancel(ref), lines 245-247 after the 0.1 s sleep: close and drop the handle
\* only if the child has exited; return.
cancel_after_kill_wait ==
    /\ UNCHANGED notAdapter
    /\ adapter_pc = "cancel_sleep_kill"
    /\ cancel_return(cancel_ref, ~process_alive(cancel_ref))
    /\ UNCHANGED <<used_ids, result_json, environ, spawn_log,
                   success_hook,
                   artifact_dirs>>

\* The calls on the run_ids in `ids` and the refs in `refs`, and the children's
\* exits.
AdapterCalls(ids, refs) ==
    \/ \E command_override \in CommandValues, built_command \in CommandValues :
          run_empty_command(command_override, built_command)
    \/ \E r \in ids, command_override \in CommandValues,
          built_command \in CommandValues, spawned \in BOOLEAN :
          run(r, command_override, built_command, spawned)
    \/ \E r \in refs, written \in BOOLEAN, stdout_text \in StdoutTexts,
          stderr_text \in StderrTexts :
          poll(r, written, stdout_text, stderr_text)
    \/ \E r \in refs, outcome \in KillpgOutcomes : cancel_begin(r, outcome)
    \/ \E outcome \in KillpgOutcomes : cancel_after_term_wait(outcome)
    \/ cancel_after_kill_wait
    \/ \E r \in ids, code \in ExitCodes : ChildExits(r, code)

\* Two runs of the adapter, and the refs run() returned.
AdapterNext == AdapterCalls(RunIds, RunIds)

\* One run of the adapter, its ref, and a ref the adapter does not know.
OneRun == {"claude-0a"}

OneRunNext == AdapterCalls(OneRun, OneRun \cup {UnknownRunId})

\* The spawning calls alone: detect() and run().
SpawnNext ==
    \/ \E found \in BOOLEAN : detect(found)
    \/ \E r \in RunIds, command_override \in CommandValues,
          built_command \in CommandValues, spawned \in BOOLEAN :
          run(r, command_override, built_command, spawned)

-----------------------------------------------------------------------------
(***************************************************************************)
(* The adapter driven by several threads: adapters/shim.py:152-247         *)
(*                                                                         *)
(* ShimAdapterBase holds no lock, so the statements of two calls made by   *)
(* two threads interleave. Each thread makes one call, poll(ref) or        *)
(* cancel(ref), on the ref of the one run, and takes one step per          *)
(* statement that reads or writes shared state: the run table, the child,  *)
(* the capture files and the result file.                                  *)
(***************************************************************************)

ThreadIds == {"t1", "t2"}

ThreadOps == {"poll", "cancel"}

\* The run whose ref both threads hold.
ThreadRun == CHOOSE r \in OneRun : TRUE

\* The keys of the payload poll() writes, in the order json.dumps writes them.
PAYLOAD_KEYS ==
    <<"provider", "task_id", "run_id", "pid", "command", "started_at",
      "completed_at", "exit_code", "success", "error_kind", "warnings",
      "stdout_path", "stderr_path">>

\* providers/<provider>.json does not exist.
NoFile == [exists |-> FALSE, keys |-> <<>>]

\* The file holds the first n keys of the payload.
FileWith(n) == [exists |-> TRUE, keys |-> SubSeq(PAYLOAD_KEYS, 1, n)]

\* The file as an earlier poll() of the same task and provider left it.
WrittenFile == FileWith(Len(PAYLOAD_KEYS))

\* How many keys a write_text has put into the file when it ends: all of them,
\* or, when the write fails (disk full, I/O error, the process killed), none or
\* half of them.
WriteLengths == {0, Len(PAYLOAD_KEYS) \div 2, Len(PAYLOAD_KEYS)}

\* A thread that has made no call.
NoThread == [op |-> None, pc |-> "idle", status |-> None, error_kind |-> None,
             closed |-> FALSE, wrote |-> FALSE]

\* No thread has called, and no result file exists.
ThreadsIdle ==
    /\ threads = [t \in ThreadIds |-> NoThread]
    /\ result_file = NoFile

\* No thread has called; the result file is absent or holds the payload of an
\* earlier run of the same task.
ThreadsInit ==
    /\ threads = [t \in ThreadIds |-> NoThread]
    /\ result_file \in {NoFile, WrittenFile}

\* What the child of the run has written when it exits: nothing to stdout and,
\* when it fails, an authentication error to stderr.
ThreadStdout == ""

ThreadStderr(return_code) == IF return_code = 0 THEN {} ELSE {"auth"}

\* Thread t is in a call of op, at the statement pc.
at(t, op, pc) == threads[t].op = op /\ threads[t].pc = pc

\* Thread t calls poll(ref) or cancel(ref).
t_call(t, op) ==
    /\ UNCHANGED notThreads
    /\ threads[t].pc = "idle"
    /\ ThreadRun \in used_ids
    /\ threads' = [threads EXCEPT ![t].op = op, ![t].pc = "get_handle"]
    /\ UNCHANGED <<adapterVars, result_file>>

\* poll, lines 153-166: handle = self._runs.get(ref.run_id); no handle -> the
\* synthetic EXPIRED status.
t_poll_get_handle(t) ==
    /\ UNCHANGED notThreads
    /\ at(t, "poll", "get_handle")
    /\ IF ThreadRun \notin runs
       THEN /\ threads' = [threads EXCEPT
                              ![t].pc = "returned",
                              ![t].status = "EXPIRED",
                              ![t].error_kind = "NON_RETRYABLE_INVALID_INPUT"]
            /\ released' = released \cup {ThreadRun}
       ELSE /\ threads' = [threads EXCEPT ![t].pc = "process_poll"]
            /\ UNCHANGED released
    /\ UNCHANGED <<environ, success_hook, artifact_dirs, spawn_log, runs,
                   used_ids, proc, exit_code, capture, result_json, signals,
                   adapter_pc, cancel_ref, last_op, result_file>>

\* poll, lines 168-181: return_code = handle.process.poll(); child alive ->
\* STARTED.
t_poll_process_poll(t) ==
    /\ UNCHANGED notThreads
    /\ at(t, "poll", "process_poll")
    /\ IF process_alive(ThreadRun)
       THEN threads' = [threads EXCEPT ![t].pc = "returned",
                                       ![t].status = "STARTED"]
       ELSE threads' = [threads EXCEPT ![t].pc = "close_io"]
    /\ UNCHANGED <<adapterVars, result_file>>

\* poll, lines 183-205: self._close_io(handle), then the reads of the capture
\* files and the payload, which touch nothing shared.
t_poll_close_io(t) ==
    /\ UNCHANGED notThreads
    /\ at(t, "poll", "close_io")
    /\ capture' = close_io(ThreadRun)
    /\ threads' = [threads EXCEPT ![t].pc = "write_open", ![t].closed = TRUE]
    /\ UNCHANGED <<environ, success_hook, artifact_dirs, spawn_log, runs,
                   used_ids, proc, exit_code, result_json, signals, released,
                   adapter_pc, cancel_ref, last_op, result_file>>

\* poll, line 206, write_text opening the file with mode "w": the file is
\* created or truncated in place; or the open fails and poll() raises.
t_poll_write_open(t, opened) ==
    /\ UNCHANGED notThreads
    /\ at(t, "poll", "write_open")
    /\ IF opened
       THEN /\ result_file' = FileWith(0)
            /\ threads' = [threads EXCEPT ![t].pc = "write_data"]
       ELSE /\ threads' = [threads EXCEPT ![t].pc = "raised"]
            /\ UNCHANGED result_file
    /\ UNCHANGED adapterVars

\* What the file holds after a write of the first n keys from offset 0: those
\* keys, or what another writer put there beyond them.
write_data(file, n) == IF Len(file.keys) > n THEN file ELSE FileWith(n)

\* poll, line 206, write_text writing the document into the open file and
\* closing it: the whole document; or a part of it, the write failing and
\* poll() raising.
t_poll_write_data(t, n) ==
    /\ UNCHANGED notThreads
    /\ at(t, "poll", "write_data")
    /\ result_file' = write_data(result_file, n)
    /\ IF n = Len(PAYLOAD_KEYS)
       THEN /\ threads' = [threads EXCEPT ![t].pc = "pop", ![t].wrote = TRUE]
            /\ result_json' = result_json \cup {ThreadRun}
       ELSE /\ threads' = [threads EXCEPT ![t].pc = "raised"]
            /\ UNCHANGED result_json
    /\ UNCHANGED <<environ, success_hook, artifact_dirs, spawn_log, runs,
                   used_ids, proc, exit_code, capture, signals, released,
                   adapter_pc, cancel_ref, last_op>>

\* poll, lines 207-220: self._runs.pop(ref.run_id, None), which does nothing
\* when the key is gone, and the SUCCEEDED or FAILED status.
t_poll_pop(t) ==
    /\ UNCHANGED notThreads
    /\ at(t, "poll", "pop")
    /\ runs' = runs \ {ThreadRun}
    /\ released' = released \cup {ThreadRun}
    /\ LET return_code == exit_code[ThreadRun]
           success == is_success(return_code, ThreadStdout,
                                 ThreadStderr(return_code))
           error_kind == IF success THEN None
                         ELSE classify_error(return_code,
                                             ThreadStderr(return_code))
       IN  threads' = [threads EXCEPT
                          ![t].pc = "returned",
                          ![t].status = IF success THEN "SUCCEEDED"
                                        ELSE "FAILED",
                          ![t].error_kind = error_kind]
    /\ UNCHANGED <<environ, success_hook, artifact_dirs, spawn_log, used_ids,
                   proc, exit_code, capture, result_json, signals, adapter_pc,
                   cancel_ref, last_op, result_file>>

\* cancel, lines 223-225: no handle -> return.
t_cancel_get_handle(t) ==
    /\ UNCHANGED notThreads
    /\ at(t, "cancel", "get_handle")
    /\ threads' = [threads EXCEPT
                      ![t].pc = IF ThreadRun \in runs THEN "process_poll"
                                ELSE "returned"]
    /\ UNCHANGED <<adapterVars, result_file>>

\* One killpg of the call of thread t: the signal goes to the process group
\* and the thread sleeps (next_pc); or the child is gone (ProcessLookupError)
\* and the call goes on to release the handle; or another OSError leaves the
\* call.
t_killpg(t, sig, outcome, next_pc) ==
    CASE outcome = "sent" ->
            /\ signals' = [signals EXCEPT
                              ![ThreadRun] = Append(@, [signal |-> sig,
                                                        to |-> "pgid"])]
            /\ threads' = [threads EXCEPT ![t].pc = next_pc]
            /\ UNCHANGED <<proc, exit_code>>
      [] outcome = "ProcessLookupError" ->
            /\ proc' = [proc EXCEPT ![ThreadRun] = "exited"]
            /\ exit_code' = set_returncode(ThreadRun, 1)
            /\ threads' = [threads EXCEPT ![t].pc = "close_io"]
            /\ UNCHANGED signals
      [] outcome = "PermissionError" ->
            /\ threads' = [threads EXCEPT ![t].pc = "raised"]
            /\ UNCHANGED <<proc, exit_code, signals>>

\* cancel, lines 226-236: child exited -> release; else SIGTERM to the process
\* group and sleep 0.2 s.
t_cancel_sigterm(t, outcome) ==
    /\ UNCHANGED notThreads
    /\ at(t, "cancel", "process_poll")
    /\ IF process_alive(ThreadRun)
       THEN t_killpg(t, "SIGTERM", outcome, "sleep_term")
       ELSE /\ threads' = [threads EXCEPT ![t].pc = "close_io"]
            /\ UNCHANGED <<proc, exit_code, signals>>
    /\ UNCHANGED <<environ, success_hook, artifact_dirs, spawn_log, runs,
                   used_ids, capture, result_json, released, adapter_pc,
                   cancel_ref, last_op, result_file>>

\* cancel, lines 237-244 after the 0.2 s sleep: child alive -> SIGKILL to the
\* process group and sleep 0.1 s; child exited -> release (line 245).
t_cancel_sigkill(t, outcome) ==
    /\ UNCHANGED notThreads
    /\ at(t, "cancel", "sleep_term")
    /\ IF process_alive(ThreadRun)
       THEN t_killpg(t, "SIGKILL", outcome, "sleep_kill")
       ELSE /\ threads' = [threads EXCEPT ![t].pc = "close_io"]
            /\ UNCHANGED <<proc, exit_code, signals>>
    /\ UNCHANGED <<environ, success_hook, artifact_dirs, spawn_log, runs,
                   used_ids, capture, result_json, released, adapter_pc,
                   cancel_ref, last_op, result_file>>

\* cancel, line 245 after the 0.1 s sleep: child exited -> release; else
\* return with the handle kept.
t_cancel_final_poll(t) ==
    /\ UNCHANGED notThreads
    /\ at(t, "cancel", "sleep_kill")
    /\ threads' = [threads EXCEPT
                      ![t].pc = IF process_alive(ThreadRun) THEN "returned"
                                ELSE "close_io"]
    /\ UNCHANGED <<adapterVars, result_file>>

\* cancel, lines 227, 233, 241, 246: self._close_io(handle).
t_cancel_close_io(t) ==
    /\ UNCHANGED notThreads
    /\ at(t, "cancel", "close_io")
    /\ capture' = close_io(ThreadRun)
    /\ threads' = [threads EXCEPT ![t].pc = "pop", ![t].closed = TRUE]
    /\ UNCHANGED <<environ, success_hook, artifact_dirs, spawn_log, runs,
                   used_ids, proc, exit_code, result_json, signals, released,
                   adapter_pc, cancel_ref, last_op, result_file>>

\* cancel, lines 228, 234, 242, 247: self._runs.pop(ref.run_id, None); return.
t_cancel_pop(t) ==
    /\ UNCHANGED notThreads
    /\ at(t, "cancel", "pop")
    /\ runs' = runs \ {ThreadRun}
    /\ released' = released \cup {ThreadRun}
    /\ threads' = [threads EXCEPT ![t].pc = "returned"]
    /\ UNCHANGED <<environ, success_hook, artifact_dirs, spawn_log, used_ids,
                   proc, exit_code, capture, result_json, signals, adapter_pc,
                   cancel_ref, last_op, result_file>>

\* One run of the adapter, its child's exit, and the calls of the threads on
\* its ref.
ThreadNext ==
    \/ \E command_override \in CommandValues, built_command \in CommandValues,
          spawned \in BOOLEAN :
          run(ThreadRun, command_override, built_command, spawned)
    \/ \E code \in ExitCodes : ChildExits(ThreadRun, code)
    \/ \E t \in ThreadIds, op \in ThreadOps : t_call(t, op)
    \/ \E t \in ThreadIds : t_poll_get_handle(t)
    \/ \E t \in ThreadIds : t_poll_process_poll(t)
    \/ \E t \in ThreadIds : t_poll_close_io(t)
    \/ \E t \in ThreadIds, opened \in BOOLEAN : t_poll_write_open(t, opened)
    \/ \E t \in ThreadIds, n \in WriteLengths : t_poll_write_data(t, n)
    \/ \E t \in ThreadIds : t_poll_pop(t)
    \/ \E t \in ThreadIds : t_cancel_get_handle(t)
    \/ \E t \in ThreadIds, outcome \in KillpgOutcomes :
          t_cancel_sigterm(t, outcome)
    \/ \E t \in ThreadIds, outcome \in KillpgOutcomes :
          t_cancel_sigkill(t, outcome)
    \/ \E t \in ThreadIds : t_cancel_final_poll(t)
    \/ \E t \in ThreadIds : t_cancel_close_io(t)
    \/ \E t \in ThreadIds : t_cancel_pop(t)

-----------------------------------------------------------------------------
(***************************************************************************)
(* The process group of a run's child: adapters/shim.py:114-122, 230-247   *)
(*                                                                         *)
(* run() starts the child in a new session, so the child leads a process   *)
(* group of its own and the subprocesses it spawns are members of it.      *)
(* cancel() signals the group and watches the child alone.                 *)
(***************************************************************************)

\* No child has spawned a subprocess.
GroupIdle == subprocess = [r \in RunIds |-> "none"]

\* The child of run r spawns a subprocess, which stays in the child's process
\* group.
ChildSpawnsSubprocess(r) ==
    /\ UNCHANGED notGroup
    /\ proc[r] = "alive"
    /\ subprocess[r] = "none"
    /\ subprocess' = [subprocess EXCEPT ![r] = "alive"]

\* The subprocess of run r ends: on its own, or because of a signal it
\* received and did not ignore.
SubprocessExits(r) ==
    /\ UNCHANGED notGroup
    /\ subprocess[r] = "alive"
    /\ subprocess' = [subprocess EXCEPT ![r] = "exited"]

\* One run of the adapter whose child may spawn a subprocess.
GroupNext ==
    \/ OneRunNext
    \/ \E r \in OneRun : ChildSpawnsSubprocess(r)
    \/ \E r \in OneRun : SubprocessExits(r)

-----------------------------------------------------------------------------
(***************************************************************************)
(* Formatters: formatters.py:8-200                                         *)
(*                                                                         *)
(* A text (a Python str) is the sequence of its characters.  A dict key    *)
(* that may be missing is Absent or Some(value).                           *)
(***************************************************************************)

Absent == <<>>
Some(value) == <<value>>

\* dict.get(key, default)
get(option, default) == IF option = Absent THEN default ELSE option[1]

DigitChars == <<"0", "1", "2", "3", "4", "5", "6", "7", "8", "9">>
UpperChars ==
    <<"A", "B", "C", "D", "E", "F", "G", "H", "I", "J", "K", "L", "M",
      "N", "O", "P", "Q", "R", "S", "T", "U", "V", "W", "X", "Y", "Z">>
LowerChars ==
    <<"a", "b", "c", "d", "e", "f", "g", "h", "i", "j", "k", "l", "m",
      "n", "o", "p", "q", "r", "s", "t", "u", "v", "w", "x", "y", "z">>

Range(seq) == {seq[i] : i \in DOMAIN seq}

\* The grave accent, which a TLA+ string cannot hold.
backtick == "GRAVE ACCENT"

\* The characters of the model, in code point order.
CodePoints ==
    <<"\n", " ", "-", ".", "/">> \o DigitChars \o <<":", "<", ">">>
        \o UpperChars \o <<"\\", "_", backtick>> \o LowerChars \o <<"|">>

ord(c) == CHOOSE i \in DOMAIN CodePoints : CodePoints[i] = c

\* str.__lt__: by code point, a proper prefix first.
RECURSIVE text_less(_, _)
text_less(a, b) ==
    IF b = <<>> THEN FALSE
    ELSE IF a = <<>> THEN TRUE
    ELSE IF Head(a) # Head(b) THEN ord(Head(a)) < ord(Head(b))
    ELSE text_less(Tail(a), Tail(b))

\* str.lower()
lower_char(c) ==
    IF c \in Range(UpperChars)
    THEN LowerChars[CHOOSE i \in DOMAIN UpperChars : UpperChars[i] = c]
    ELSE c

lower(text) == [i \in DOMAIN text |-> lower_char(text[i])]

\* str.strip(chars)
RECURSIVE lstrip_chars(_, _)
lstrip_chars(text, chars) ==
    IF text # <<>> /\ Head(text) \in chars
    THEN lstrip_chars(Tail(text), chars)
    ELSE text

RECURSIVE rstrip_chars(_, _)
rstrip_chars(text, chars) ==
    IF text # <<>> /\ text[Len(text)] \in chars
    THEN rstrip_chars(SubSeq(text, 1, Len(text) - 1), chars)
    ELSE text

strip_chars(text, chars) == rstrip_chars(lstrip_chars(text, chars), chars)

Whitespace == {" ", "\n"}

\* str.strip()
strip(text) == strip_chars(text, Whitespace)

\* str.replace(old, new), old a single character
RECURSIVE replace(_, _, _)
replace(text, old, new) ==
    IF text = <<>> THEN <<>>
    ELSE (IF Head(text) = old THEN new ELSE <<Head(text)>>)
             \o replace(Tail(text), old, new)

\* str(n) of an int n >= 0
RECURSIVE decimal(_)
decimal(n) ==
    IF n < 10 THEN <<DigitChars[n + 1]>>
    ELSE decimal(n \div 10) \o <<DigitChars[(n % 10) + 1]>>

\* f"{float(v):.2f}", v given in hundredths
two_decimals(hundredths) ==
    decimal(hundredths \div 100) \o <<".">>
        \o <<DigitChars[((hundredths \div 10) % 10) + 1],
             DigitChars[(hundredths % 10) + 1]>>

\* "sep".join(texts)
RECURSIVE join(_, _)
join(sep, texts) ==
    IF texts = <<>> THEN <<>>
    ELSE IF Len(texts) = 1 THEN texts[1]
    ELSE texts[1] \o sep \o join(sep, Tail(texts))

critical == <<"c", "r", "i", "t", "i", "c", "a", "l">>
high == <<"h", "i", "g", "h">>
medium == <<"m", "e", "d", "i", "u", "m">>
low == <<"l", "o", "w">>
dash == <<"-">>

SEVERITY_ORDER == <<critical, high, medium, low>>

SARIF_LEVEL_BY_SEVERITY ==
    [severity \in Range(SEVERITY_ORDER) |->
        CASE severity = critical -> "error"
          [] severity = high -> "warning"
          [] OTHER -> "note"]

\* _escape_markdown_cell with the pipe escaped before the backslash.
escape_markdown_cell_PipeFirst(value) ==
    replace(replace(replace(value, "|", <<"\\", "|">>),
                    "\\", <<"\\", "\\">>),
            "\n", <<"<", "b", "r", ">">>)

escape_markdown_cell(value) ==
    replace(replace(replace(value, "\\", <<"\\", "\\">>),
                    "|", <<"\\", "|">>),
            "\n", <<"<", "b", "r", ">">>)

finding_location(finding) ==
    IF finding.evidence = Absent THEN dash
    ELSE LET evidence == finding.evidence[1]
             file_path == strip(evidence.file)
             line == evidence.line
         IN  IF file_path = <<>> THEN dash
             ELSE IF line > 0 THEN file_path \o <<":">> \o decimal(line)
             ELSE file_path

\* The position of a severity in _SEVERITY_ORDER, from 0; len(_SEVERITY_ORDER)
\* when it is not there.
severity_index(severity) ==
    IF severity \in Range(SEVERITY_ORDER)
    THEN (CHOOSE i \in DOMAIN SEVERITY_ORDER : SEVERITY_ORDER[i] = severity) - 1
    ELSE Len(SEVERITY_ORDER)

\* The key format_markdown_pr sorts the findings by.
sort_key(item) ==
    [severity |-> severity_index(lower(get(item.severity, low))),
     location |-> finding_location(item),
     title |-> get(item.title, <<>>)]

\* Tuple comparison: key_a < key_b
key_less(key_a, key_b) ==
    \/ key_a.severity < key_b.severity
    \/ /\ key_a.severity = key_b.severity
       /\ \/ text_less(key_a.location, key_b.location)
          \/ /\ key_a.location = key_b.location
             /\ text_less(key_a.title, key_b.title)

\* sorted(findings, key=...): a stable sort.
RECURSIVE insert_by_key(_, _)
insert_by_key(ordered, item) ==
    IF ordered = <<>> THEN <<item>>
    ELSE IF key_less(sort_key(item), sort_key(Head(ordered)))
         THEN <<item>> \o ordered
         ELSE <<Head(ordered)>> \o insert_by_key(Tail(ordered), item)

RECURSIVE sorted_findings(_)
sorted_findings(findings) ==
    IF findings = <<>> THEN <<>>
    ELSE insert_by_key(sorted_findings(SubSeq(findings, 1, Len(findings) - 1)),
                       findings[Len(findings)])

\* One row of the findings table.
markdown_row(finding) ==
    LET confidence_text ==
            IF finding.confidence = Absent THEN dash
            ELSE two_decimals(finding.confidence[1])
    IN  <<"|", " ">>
        \o join(<<" ", "|", " ">>,
                <<<<backtick>> \o escape_markdown_cell(lower(get(finding.severity, dash)))
                      \o <<backtick>>,
                  escape_markdown_cell(get(finding.category, dash)),
                  escape_markdown_cell(get(finding.title, dash)),
                  <<backtick>> \o escape_markdown_cell(finding_location(finding))
                      \o <<backtick>>,
                  confidence_text,
                  escape_markdown_cell(get(finding.recommendation, dash))>>)
        \o <<" ", "|">>

\* The header of the findings table.
FINDINGS_HEADER ==
    <<<<"| Severity | Category | Title | Location | Confidence | Recommendation |">>,
      <<"|---|---|---|---|---:|---|">>>>

\* The lines format_markdown_pr joins.  A line is a sequence of pieces: the
\* fixed text of the report is one piece per literal, the interpolated values
\* and the rows of the findings table are spelled out character by character.
markdown_lines(payload, findings) ==
    LET counts ==
            [level \in Range(SEVERITY_ORDER) |->
                Cardinality({i \in DOMAIN findings :
                                lower(get(findings[i].severity, <<>>)) = level})]
        summary ==
            <<<<"## MCO Review Summary">>,
              <<>>,
              <<"- Decision: **">> \o get(payload.decision, dash) \o <<"**">>,
              <<"- Terminal State: ", backtick>> \o get(payload.terminal_state, dash)
                  \o <<backtick>>,
              <<"- Providers: success ", backtick>>
                  \o decimal(get(payload.provider_success_count, 0))
                  \o <<backtick, " / failure ", backtick>>
                  \o decimal(get(payload.provider_failure_count, 0)) \o <<backtick>>,
              <<"- Findings: ", backtick>> \o decimal(get(payload.findings_count, 0))
                  \o <<backtick>>,
              <<>>,
              <<"### Severity Breakdown">>,
              <<>>,
              <<"| Severity | Count |">>,
              <<"|---|---:|">>>>
        breakdown ==
            [i \in DOMAIN SEVERITY_ORDER |->
                <<"| ", backtick>> \o SEVERITY_ORDER[i] \o <<backtick, " | ">>
                    \o decimal(counts[SEVERITY_ORDER[i]]) \o <<" |">>]
        heading == <<<<>>, <<"### Findings">>, <<>>>>
        ordered_findings == sorted_findings(findings)
    IN  IF findings = <<>>
        THEN summary \o breakdown \o heading \o <<<<"_No findings reported._">>>>
        ELSE summary \o breakdown \o heading \o FINDINGS_HEADER
                 \o [i \in DOMAIN ordered_findings |->
                        markdown_row(ordered_findings[i])]

\* The report: "\n".join(lines)
format_markdown_pr(payload, findings) ==
    join(<<"\n">>, markdown_lines(payload, findings))

\* [a-zA-Z0-9]
Alnum == Range(LowerChars) \cup Range(UpperChars) \cup Range(DigitChars)

\* re.sub(r"[^a-zA-Z0-9]+", "-", text)
RECURSIVE sub_non_alnum(_)
sub_non_alnum(text) ==
    IF text = <<>> THEN <<>>
    ELSE IF Head(text) \in Alnum
         THEN <<Head(text)>> \o sub_non_alnum(Tail(text))
         ELSE dash \o sub_non_alnum(lstrip_chars(Tail(text),
                                                 Range(CodePoints) \ Alnum))

normalize_rule_name(category, title) ==
    LET normalized ==
            strip_chars(sub_non_alnum(lower(strip(category \o dash \o title))),
                        {"-"})
    IN  IF normalized = <<>> THEN <<"f", "i", "n", "d", "i", "n", "g">>
        ELSE normalized

\* hashlib.sha256(text).hexdigest()[:10]: a digest is written as the text it
\* is the digest of, so two digests are equal exactly when the hashed texts
\* are (no collision of the hash itself is modelled).
sha256_hexdigest10(text) == [sha256 |-> text]

general == <<"g", "e", "n", "e", "r", "a", "l">>

\* The category and the title _rule_id_for_finding works with.
rule_category(finding) ==
    LET category == lower(strip(get(finding.category, general)))
    IN  IF category = <<>> THEN general ELSE category

rule_title(finding) ==
    strip(get(finding.title, <<"f", "i", "n", "d", "i", "n", "g">>))

\* f"mco/{name}/{suffix}": the name holds no "/", so the three parts
\* determine the id and the id determines them.
rule_id_for_finding(finding) ==
    [prefix |-> "mco",
     name |-> normalize_rule_name(rule_category(finding), rule_title(finding)),
     suffix |-> sha256_hexdigest10(rule_category(finding) \o <<"|", "|">>
                                       \o rule_title(finding))]

\* What one pass of the loop of format_sarif adds for a finding.
sarif_rule(finding) ==
    LET stripped == strip(get(finding.title, <<"F", "i", "n", "d", "i", "n", "g">>))
        title == IF stripped = <<>>
                 THEN <<"F", "i", "n", "d", "i", "n", "g">> ELSE stripped
        recommendation == strip(get(finding.recommendation, <<>>))
        category == lower(strip(get(finding.category, <<>>)))
    IN  [id |-> rule_id_for_finding(finding),
         name |-> normalize_rule_name(category, title),
         shortDescription |-> [text |-> title],
         properties |-> [category |-> category],
         help |-> IF recommendation # <<>>
                  THEN Some([text |-> recommendation]) ELSE Absent]

sarif_result(finding) ==
    LET stripped == strip(get(finding.title, <<"F", "i", "n", "d", "i", "n", "g">>))
        title == IF stripped = <<>>
                 THEN <<"F", "i", "n", "d", "i", "n", "g">> ELSE stripped
        category == lower(strip(get(finding.category, <<>>)))
        severity == lower(strip(get(finding.severity, low)))
        level == IF severity \in DOMAIN SARIF_LEVEL_BY_SEVERITY
                 THEN SARIF_LEVEL_BY_SEVERITY[severity] ELSE "note"
        detected_by_value ==
            IF finding.detected_by # Absent
            THEN SelectSeq(finding.detected_by[1], LAMBDA item : item # "")
            ELSE IF finding.provider # Absent /\ finding.provider[1] # ""
                 THEN <<finding.provider[1]>> ELSE <<>>
        locations ==
            IF finding.evidence = Absent THEN Absent
            ELSE LET evidence == finding.evidence[1]
                     file_path == strip(evidence.file)
                     snippet == strip(evidence.snippet)
                 IN  IF file_path = <<>> THEN Absent
                     ELSE Some(<<[physicalLocation |->
                                   [artifactLocation |-> [uri |-> file_path],
                                    region |->
                                      [startLine |->
                                          IF evidence.line > 0
                                          THEN Some(evidence.line) ELSE Absent,
                                       snippet |->
                                          IF snippet # <<>>
                                          THEN Some([text |-> snippet])
                                          ELSE Absent]]]>>)
    IN  [ruleId |-> rule_id_for_finding(finding),
         level |-> level,
         message |-> [text |-> title],
         properties |->
            [category |-> category,
             severity |-> severity,
             confidence |-> get(finding.confidence, 0),
             detected_by |-> detected_by_value,
             fingerprint |-> get(finding.fingerprint, "")],
         locations |-> locations]

\* The loop of format_sarif: rules_by_id, as the sequence of its values in
\* insertion order, and results.
RECURSIVE sarif_loop(_, _, _)
sarif_loop(findings, rules, results) ==
    IF findings = <<>> THEN [rules |-> rules, results |-> results]
    ELSE LET finding == Head(findings)
             rule_id == rule_id_for_finding(finding)
         IN  sarif_loop(Tail(findings),
                        IF \E i \in DOMAIN rules : rules[i].id = rule_id
                        THEN rules ELSE Append(rules, sarif_rule(finding)),
                        Append(results, sarif_result(finding)))

\* format_sarif with one result for each rule.
format_sarif_ResultPerRule(payload, findings) ==
    LET looped == sarif_loop(findings, <<>>, <<>>)
    IN  [schema |-> "https://json.schemastore.org/sarif-2.1.0.json",
         version |-> "2.1.0",
         runs |->
            <<[tool |->
                  [driver |->
                      [name |-> "MCO",
                       informationUri |-> "https://github.com/mco-org/mco",
                       rules |-> looped.rules]],
               properties |->
                  [decision |-> payload.decision,
                   terminal_state |-> payload.terminal_state,
                   findings_count |-> payload.findings_count],
               results |-> SubSeq(looped.results, 1, Len(looped.rules))]>>]

format_sarif(payload, findings) ==
    LET looped == sarif_loop(findings, <<>>, <<>>)
    IN  [schema |-> "https://json.schemastore.org/sarif-2.1.0.json",
         version |-> "2.1.0",
         runs |->
            <<[tool |->
                  [driver |->
                      [name |-> "MCO",
                       informationUri |-> "https://github.com/mco-org/mco",
                       rules |-> looped.rules]],
               properties |->
                  [decision |-> payload.decision,
                   terminal_state |-> payload.terminal_state,
                   findings_count |-> payload.findings_count],
               results |-> looped.results]>>]

\* The payloads the formatters are called with: the review's summary, and a
\* dict without any of the keys.
Payloads ==
    {[decision |-> Some(<<"PASS">>),
      terminal_state |-> Some(<<"COMPLETED">>),
      provider_success_count |-> Some(2),
      provider_failure_count |-> Some(0),
      findings_count |-> Some(1)],
     [decision |-> Absent,
      terminal_state |-> Absent,
      provider_success_count |-> Absent,
      provider_failure_count |-> Absent,
      findings_count |-> Absent]}

\* Findings that differ in what the rule id is made of.
SarifFindings ==
    {[severity |-> Some(high),
      category |-> category,
      title |-> title,
      recommendation |-> recommendation,
      confidence |-> Absent,
      fingerprint |-> Some("fp-1"),
      detected_by |-> Some(<<"claude", "", "qwen">>),
      provider |-> Absent,
      evidence |-> Absent] :
        category \in {Absent, Some(<<"a">>), Some(<<"A", " ">>),
                      Some(<<"a", "|", "|">>)},
        title \in {Some(<<"t">>), Some(<<"|", "|">>), Some(<<>>)},
        recommendation \in {Some(<<>>), Some(<<"r">>)}}

\* Findings that differ in what the cells of the findings table are made of.
MarkdownFindings ==
    {[severity |-> severity,
      category |-> category,
      title |-> title,
      recommendation |-> recommendation,
      confidence |-> Some(80),
      fingerprint |-> Absent,
      detected_by |-> Absent,
      provider |-> Some("claude"),
      evidence |-> Some([file |-> <<" ", "f", "\\">>, line |-> 12,
                         snippet |-> <<"x">>])] :
        severity \in {Some(<<"H", "i", "g", "h">>), Some(<<"|">>)},
        category \in {Absent, Some(<<"\\", "|">>)},
        title \in {Some(<<"t">>), Some(<<"|", "\n">>)},
        recommendation \in {Some(<<"\n", "\\">>), Some(<<"a", "|", "b">>)}}

MaxFindings == 2

ListsOf(items) == UNION {[1..n -> items] : n \in 0..MaxFindings}

FindingLists == ListsOf(SarifFindings) \cup ListsOf(MarkdownFindings)

FormatterIdle ==
    /\ input_findings = <<>>
    /\ last_format = [format |-> "none", sarif |-> Absent, markdown |-> Absent]

FormatterInit ==
    /\ input_findings \in FindingLists
    /\ last_format = [format |-> "none", sarif |-> Absent, markdown |-> Absent]

\* A call of format_sarif on the findings.
format_sarif_call(payload) ==
    /\ UNCHANGED notFormatter
    /\ last_format.format = "none"
    /\ last_format' = [format |-> "sarif",
                       sarif |-> Some(format_sarif(payload, input_findings)),
                       markdown |-> Absent]
    /\ UNCHANGED input_findings

\* A call of format_markdown_pr on the findings.
format_markdown_pr_call(payload) ==
    /\ UNCHANGED notFormatter
    /\ last_format.format = "none"
    /\ last_format' = [format |-> "markdown-pr",
                       sarif |-> Absent,
                       markdown |-> Some(format_markdown_pr(payload, input_findings))]
    /\ UNCHANGED input_findings

FormatterNext ==
    \/ \E payload \in Payloads : format_sarif_call(payload)
    \/ \E payload \in Payloads : format_markdown_pr_call(payload)

-----------------------------------------------------------------------------
(***************************************************************************)
(* Specifications                                                          *)
(***************************************************************************)

SMNext == \E next_state \in TaskState : transition(next_state)

\* The adapter while another component runs: the base class's success hook in
\* the ambient environment, nothing called yet.
AdapterIdle ==
    AdapterInit /\ environ = AmbientEnv /\ success_hook = "default"

\* Each specification starts its own component from that component's initial
\* states and holds the other components at their idle values.
InitStateMachine ==
    SMInit /\ RetryIdle /\ ReducerIdle /\ ExpiryIdle /\ AdapterIdle
    /\ FormatterIdle /\ ThreadsIdle /\ GroupIdle

InitRetry ==
    SMInit /\ RetryInit /\ ReducerIdle /\ ExpiryIdle /\ AdapterIdle
    /\ FormatterIdle /\ ThreadsIdle /\ GroupIdle

InitReducer ==
    SMInit /\ RetryIdle /\ ReducerInit /\ ExpiryIdle /\ AdapterIdle
    /\ FormatterIdle /\ ThreadsIdle /\ GroupIdle

InitExpiry ==
    SMInit /\ RetryIdle /\ ReducerIdle /\ ExpiryInit /\ AdapterIdle
    /\ FormatterIdle /\ ThreadsIdle /\ GroupIdle

\* An adapter with the base class's success hook, in the ambient environment.
Init ==
    SMInit /\ RetryIdle /\ ReducerIdle /\ ExpiryIdle /\ AdapterIdle
    /\ FormatterIdle /\ ThreadsIdle /\ GroupIdle

\* An adapter of either kind of class, in the ambient environment.
InitOneRun ==
    /\ SMInit /\ RetryIdle /\ ReducerIdle /\ ExpiryIdle /\ FormatterIdle
    /\ ThreadsIdle /\ GroupIdle
    /\ AdapterInit
    /\ environ = AmbientEnv
    /\ success_hook \in SuccessHooks

\* An adapter in any environment.
InitSpawn ==
    /\ SMInit /\ RetryIdle /\ ReducerIdle /\ ExpiryIdle /\ FormatterIdle
    /\ ThreadsIdle /\ GroupIdle
    /\ AdapterInit
    /\ environ \in Environs
    /\ success_hook = "default"

SpecStateMachine == InitStateMachine /\ [][SMNext]_vars

SpecRetry == InitRetry /\ [][RetryNext]_vars

\* run_with_retry with a runner and a sleep_fn whose calls return.
SpecRetryFair ==
    /\ InitRetry
    /\ [][RetryNext]_vars
    /\ WF_vars(\E result \in AttemptResult : run_with_retry_iteration(result))

\* run_with_retry called again and again.
SpecRetryCalls == InitRetry /\ [][RetryCallsNext]_vars

SpecReducer == InitReducer /\ [][ReducerNext]_vars

SpecExpiry == InitExpiry /\ [][ExpiryNext]_vars

\* The formatters, called on any list of findings.
InitFormatters ==
    /\ SMInit /\ RetryIdle /\ ReducerIdle /\ ExpiryIdle /\ AdapterIdle
    /\ FormatterInit
    /\ ThreadsIdle /\ GroupIdle

SpecFormatters == InitFormatters /\ [][FormatterNext]_vars

\* The spawning calls of an adapter, in any environment.
SpecSpawn == InitSpawn /\ [][SpawnNext]_vars

\* One run of an adapter of either kind of class.
SpecOneRun == InitOneRun /\ [][OneRunNext]_vars

\* A child that has received a signal exits.
SignalledChildExits(r) ==
    signals[r] # <<>> /\ \E code \in ExitCodes : ChildExits(r, code)

\* The caller polls again, and the result JSON can be written.
PollAgain(r) ==
    \E stdout_text \in StdoutTexts, stderr_text \in StderrTexts :
        poll(r, TRUE, stdout_text, stderr_text)

\* time.sleep() returns: a cancel() in progress goes on.
CancelProceeds ==
    \/ \E outcome \in KillpgOutcomes : cancel_after_term_wait(outcome)
    \/ cancel_after_kill_wait

\* One run of an adapter whose caller keeps polling: signalled children exit,
\* sleeps end, and the caller polls again and again.
SpecOneRunFair ==
    /\ InitOneRun
    /\ [][OneRunNext]_vars
    /\ WF_vars(CancelProceeds)
    /\ \A r \in OneRun : WF_vars(SignalledChildExits(r)) /\ SF_vars(PollAgain(r))

\* The adapter driven by one caller, with its children ending when they will.
Spec == Init /\ [][AdapterNext]_vars

\* A task state machine driven through its states while the reducer is
\* called on a provider->success map: a caller in AGGREGATING passes the
\* reducer's result to transition().
InitAggregate ==
    /\ SMInit /\ RetryIdle /\ ExpiryIdle /\ AdapterIdle
    /\ FormatterIdle /\ ThreadsIdle /\ GroupIdle
    /\ required_provider_success \in ProviderSuccessDicts
    /\ other_provider_success = <<>>
    /\ terminal_state = None
    /\ other_terminal_state = None

AggregateNext == SMNext \/ EvaluateTerminalState

SpecAggregate == InitAggregate /\ [][AggregateNext]_vars

\* One run of an adapter with the base class's success hook, polled and
\* cancelled by two threads at once.
InitThreads ==
    /\ SMInit /\ RetryIdle /\ ReducerIdle /\ ExpiryIdle /\ AdapterIdle
    /\ FormatterIdle /\ ThreadsInit /\ GroupIdle

SpecThreads == InitThreads /\ [][ThreadNext]_vars

\* One run of an adapter whose child may spawn a subprocess.
InitGroup ==
    /\ SMInit /\ RetryIdle /\ ReducerIdle /\ ExpiryIdle /\ AdapterIdle
    /\ FormatterIdle /\ ThreadsIdle /\ GroupIdle

SpecGroup == InitGroup /\ [][GroupNext]_vars

-----------------------------------------------------------------------------
(***************************************************************************)
(* Properties of the task state machine                                    *)
(***************************************************************************)

\* The legal-transition table as the specification lists it.
LegalEdges ==
    {<<"DRAFT", "QUEUED">>,
     <<"QUEUED", "DISPATCHED">>, <<"QUEUED", "CANCELLED">>, <<"QUEUED", "EXPIRED">>,
     <<"DISPATCHED", "RUNNING">>, <<"DISPATCHED", "CANCELLED">>,
     <<"DISPATCHED", "EXPIRED">>,
     <<"RUNNING", "RETRYING">>, <<"RUNNING", "AGGREGATING">>, <<"RUNNING", "FAILED">>,
     <<"RUNNING", "CANCELLED">>, <<"RUNNING", "EXPIRED">>,
     <<"RUNNING", "PARTIAL_SUCCESS">>,
     <<"RETRYING", "RUNNING">>, <<"RETRYING", "FAILED">>, <<"RETRYING", "EXPIRED">>,
     <<"AGGREGATING", "COMPLETED">>, <<"AGGREGATING", "PARTIAL_SUCCESS">>,
     <<"AGGREGATING", "FAILED">>}

TerminalStates == {"COMPLETED", "PARTIAL_SUCCESS", "FAILED", "CANCELLED", "EXPIRED"}

\* C1: a transition(t) call made in state s succeeds and leaves the machine in
\* t when (s, t) is an edge of the legal-transition table, and fails with
\* ValueError for every other pair.
C1_TransitionSound ==
    sm_call # NoCall =>
        IF <<sm_call.from, sm_call.next>> \in LegalEdges
        THEN sm_call.outcome = "ok" /\ state = sm_call.next
        ELSE sm_call.outcome = "ValueError"

C1_Witness ==
    /\ sm_call.from = "RUNNING"
    /\ sm_call.next = "AGGREGATING"
    /\ sm_call.outcome = "ok"
    /\ state = "AGGREGATING"

\* C2: once the machine is in a terminal state, a further transition() call
\* fails and the state stays what it is.
C2_TerminalAbsorbing ==
    [][(state \in TerminalStates) =>
          ((state' = state) /\
           ((sm_calls' # sm_calls) => (sm_call'.outcome = "ValueError")))]_vars

C2_Witness ==
    /\ state \in TerminalStates
    /\ sm_call.from = state
    /\ sm_call.outcome = "ValueError"

\* C36: a transition() call that fails with the illegal-transition error
\* leaves the state of the machine unchanged; and after rejected calls made
\* in a state s, the state is still s and every legal transition from s
\* succeeds.
C36_RejectedCallChangesNothing ==
    [][/\ (sm_calls' # sm_calls /\ sm_call'.outcome = "ValueError") =>
              (state' = state /\ sm_call'.from = state)
       /\ \A next_state \in TaskState :
              (/\ sm_call.outcome = "ValueError"
               /\ <<state, next_state>> \in LegalEdges
               /\ transition(next_state)) =>
                  (/\ sm_call.from = state
                   /\ sm_call'.outcome = "ok"
                   /\ state' = next_state)]_vars

\* A machine that rejected two calls in DRAFT, the state only QUEUED leaves,
\* and then moved to QUEUED with its third call.
C36_Witness ==
    /\ sm_calls = 3
    /\ sm_call.from = "DRAFT"
    /\ sm_call.next = "QUEUED"
    /\ sm_call.outcome = "ok"
    /\ state = "QUEUED"

-----------------------------------------------------------------------------
(***************************************************************************)
(* Properties of run_with_retry                                            *)
(***************************************************************************)

RECURSIVE Power(_, _)
Power(b, k) == IF k = 0 THEN 1 ELSE b * Power(b, k - 1)

\* The runner has failed with a retryable kind on every call so far.
AlwaysRetryableFailure ==
    \A i \in 1..Len(runner_log) :
        /\ ~runner_log[i].success
        /\ runner_log[i].error_kind \in RETRYABLE_ERRORS

\* C3: with max_retries = N and a runner that fails with a retryable kind on
\* every call, the call makes N+1 runner calls, records N delays with
\* delays[i] = base * multiplier^i, and returns failure with the last kind.
C3_RetryBudget ==
    (rr_pc = "returned" /\ AlwaysRetryableFailure) =>
        LET N == retry_policy.max_retries IN
        /\ Len(runner_log) = N + 1
        /\ run_result.attempts = N + 1
        /\ Len(run_result.delays_seconds) = N
        /\ \A i \in 0..(N - 1) :
              run_result.delays_seconds[i + 1] =
                  retry_policy.base_delay_seconds
                  * Power(retry_policy.backoff_multiplier, i)
        /\ run_result.success = FALSE
        /\ run_result.final_error = runner_log[N + 1].error_kind

C3_Witness ==
    /\ rr_pc = "returned"
    /\ AlwaysRetryableFailure
    /\ retry_policy = [max_retries |-> 2, base_delay_seconds |-> 1,
                       backoff_multiplier |-> 2]
    /\ run_result.attempts = 3
    /\ run_result.delays_seconds = <<1, 2>>
    /\ runner_log[1].error_kind # runner_log[3].error_kind

\* C4 as stated: a returned RunResult whose final_error is a non-retryable
\* kind has attempts = 1 and no delays.
C4_NonRetryableSingleAttempt ==
    (rr_pc = "returned" /\ ~run_result.success
        /\ run_result.final_error \notin RETRYABLE_ERRORS) =>
        (run_result.attempts = 1 /\ run_result.delays_seconds = <<>>)

\* C4 amended: a non-retryable failure is never followed by another attempt or
\* a sleep: it is the last runner call, the call returns with it as
\* final_error, every earlier attempt failed with a retryable kind, and when
\* the first attempt fails with a non-retryable kind attempts = 1 and there
\* are no delays.
C4_NonRetryableEndsRun ==
    \A i \in 1..Len(runner_log) :
        (~runner_log[i].success
            /\ CoerceErrorKind(runner_log[i].error_kind) \notin RETRYABLE_ERRORS) =>
            /\ i = Len(runner_log)
            /\ rr_pc = "returned"
            /\ run_result.success = FALSE
            /\ run_result.attempts = i
            /\ run_result.final_error = CoerceErrorKind(runner_log[i].error_kind)
            /\ Len(run_result.delays_seconds) = i - 1
            /\ Len(sleep_log) = i - 1
            /\ \A j \in 1..(i - 1) :
                  /\ ~runner_log[j].success
                  /\ runner_log[j].error_kind \in RETRYABLE_ERRORS
            /\ (i = 1 => (run_result.attempts = 1
                          /\ run_result.delays_seconds = <<>>))

C4_Witness ==
    /\ rr_pc = "returned"
    /\ retry_policy.max_retries = 2
    /\ Len(runner_log) = 2
    /\ runner_log[1].error_kind = "RETRYABLE_TIMEOUT"
    /\ runner_log[2].error_kind = "NON_RETRYABLE_AUTH"
    /\ run_result.final_error = "NON_RETRYABLE_AUTH"
    /\ run_result.attempts = 2
    /\ Len(run_result.delays_seconds) = 1

\* C5: every returned RunResult has attempts >= 1 and
\* len(delays_seconds) = attempts - 1.
C5_DelaysMatchAttempts ==
    rr_pc = "returned" =>
        /\ run_result.attempts >= 1
        /\ Len(run_result.delays_seconds) = run_result.attempts - 1

C5_Witness ==
    /\ rr_pc = "returned"
    /\ run_result.success
    /\ run_result.attempts = 3
    /\ Len(run_result.delays_seconds) = 2

\* C25: the attempts of a call are sequential with a sleep between them:
\* the calls it makes are runner(1), sleep_fn(d1), runner(2), sleep_fn(d2),
\* ... in this order, the k-th sleep_fn call getting the k-th recorded delay;
\* when the call returns the last of them is a runner call, and sleep_fn has
\* been called attempts - 1 times, with the values of delays_seconds in order.
C25_SequentialAttempts ==
    /\ \A i \in DOMAIN call_log :
          IF i % 2 = 1
          THEN call_log[i] = [fn |-> "runner", arg |-> (i + 1) \div 2]
          ELSE /\ i \div 2 <= Len(delays)
               /\ call_log[i] = [fn |-> "sleep_fn", arg |-> delays[i \div 2]]
    /\ rr_pc = "returned" =>
          /\ Len(call_log) = 2 * run_result.attempts - 1
          /\ Len(sleep_log) = run_result.attempts - 1
          /\ sleep_log = run_result.delays_seconds
          /\ SelectSeq(call_log, LAMBDA call : call.fn = "sleep_fn")
                = [k \in DOMAIN run_result.delays_seconds |->
                      [fn |-> "sleep_fn",
                       arg |-> run_result.delays_seconds[k]]]

\* A call has returned after three attempts and two sleeps of different
\* lengths.
C25_Witness ==
    /\ rr_pc = "returned"
    /\ Len(call_log) = 5
    /\ call_log[5] = [fn |-> "runner", arg |-> 3]
    /\ call_log[2] = [fn |-> "sleep_fn", arg |-> 1]
    /\ call_log[4] = [fn |-> "sleep_fn", arg |-> 2]
    /\ run_result.delays_seconds = <<1, 2>>

\* The error kinds outside the three retryable ones.
NonRetryableKinds == ErrorKind \ RETRYABLE_ERRORS

\* C26: when a runner call returns a failure whose kind is not one of the
\* three retryable kinds, run_with_retry returns right then, failed, with
\* that kind as final_error and without a sleep_fn call, whatever retries
\* remain; the loop goes on to another attempt only after a failure of a
\* retryable kind; and after the return no runner or sleep_fn call is made.
C26_NonRetryableStopsLoop ==
    [][/\ (Len(runner_log') = Len(runner_log) + 1) =>
              LET result == runner_log'[Len(runner_log')]
              IN  /\ (~result.success /\ result.error_kind \in NonRetryableKinds)
                        => (/\ rr_pc' = "returned"
                            /\ ~run_result'.success
                            /\ run_result'.final_error = result.error_kind
                            /\ run_result'.attempts = Len(runner_log')
                            /\ sleep_log' = sleep_log
                            /\ call_log' = Append(call_log,
                                                  [fn |-> "runner",
                                                   arg |-> Len(runner_log')]))
                  /\ rr_pc' = "loop"
                        => (/\ ~result.success
                            /\ result.error_kind \in RETRYABLE_ERRORS)
       /\ rr_pc = "returned" => call_log' \in {call_log, <<>>}]_vars

\* With two retries allowed, the first attempt failed with
\* NON_RETRYABLE_PROVIDER_ERROR and the call returned after it.
C26_Witness ==
    /\ rr_pc = "returned"
    /\ retry_policy.max_retries = 2
    /\ Len(runner_log) = 1
    /\ runner_log[1].error_kind = "NON_RETRYABLE_PROVIDER_ERROR"
    /\ run_result.final_error = "NON_RETRYABLE_PROVIDER_ERROR"
    /\ call_log = <<[fn |-> "runner", arg |-> 1]>>

\* C27: a failed attempt without an error kind ends the call at once, without
\* a sleep, with success = FALSE and final_error = NORMALIZATION_ERROR; a
\* RunResult that failed always carries an error kind as final_error, and one
\* that succeeded carries none, whatever the attempts before it.
C27_NullKindIsNormalizationError ==
    [][/\ (Len(runner_log') = Len(runner_log) + 1) =>
              LET result == runner_log'[Len(runner_log')]
              IN  (~result.success /\ result.error_kind = None)
                      => (/\ rr_pc' = "returned"
                          /\ ~run_result'.success
                          /\ run_result'.final_error = "NORMALIZATION_ERROR"
                          /\ run_result'.attempts = Len(runner_log')
                          /\ sleep_log' = sleep_log
                          /\ delays' = delays)
       /\ rr_pc' = "returned" =>
              IF run_result'.success
              THEN run_result'.final_error = None
              ELSE run_result'.final_error \in ErrorKind]_vars

\* A second attempt failed without an error kind, after a retryable failure,
\* with a retry still allowed: the call returned NORMALIZATION_ERROR.
C27_Witness ==
    /\ rr_pc = "returned"
    /\ retry_policy.max_retries = 2
    /\ Len(runner_log) = 2
    /\ runner_log[1].error_kind = "RETRYABLE_TRANSIENT_NETWORK"
    /\ ~runner_log[2].success
    /\ runner_log[2].error_kind = None
    /\ ~run_result.success
    /\ run_result.final_error = "NORMALIZATION_ERROR"
    /\ run_result.attempts = 2

\* C28: with max_retries = N, a call whose runner and sleep_fn calls return
\* makes at most N + 1 runner calls and at most N sleep_fn calls, exactly one
\* runner call when N = 0, and returns.
C28_RetryTerminates ==
    /\ [](/\ Len(runner_log) <= retry_policy.max_retries + 1
          /\ Len(sleep_log) <= retry_policy.max_retries
          /\ Len(call_log) = Len(runner_log) + Len(sleep_log)
          /\ (rr_pc = "returned" /\ retry_policy.max_retries = 0)
                => (Len(runner_log) = 1 /\ sleep_log = <<>>))
    /\ (rr_pc = "loop" ~> rr_pc = "returned")

\* A call has used its whole budget: three runner calls and two sleeps with
\* max_retries = 2.
C28_Witness ==
    /\ rr_pc = "returned"
    /\ retry_policy.max_retries = 2
    /\ Len(runner_log) = 3
    /\ Len(sleep_log) = 2
    /\ ~run_result.success

\* The warnings of the attempts in a log, one attempt after the other.
RECURSIVE WarningsOf(_)
WarningsOf(log) ==
    IF log = <<>> THEN <<>>
    ELSE WarningsOf(SubSeq(log, 1, Len(log) - 1)) \o log[Len(log)].warnings

\* The attempt could be retried: it failed with a retryable kind within the
\* budget.  Nothing in it depends on the attempt's warnings.
Retried(log, i) ==
    /\ ~log[i].success
    /\ log[i].error_kind \in RETRYABLE_ERRORS
    /\ i <= retry_policy.max_retries

\* C29: warnings are carried, never promoted: RunResult.warnings is the
\* concatenation, in attempt order, of the warnings of every attempt of the
\* call, failed ones included; and success, final_error, attempts and
\* delays_seconds are what the attempts' success flags and error kinds alone
\* make them, with or without warnings: the call went on exactly after the
\* attempts that could be retried, success and final_error are those of the
\* last attempt, and the delays are those of the policy.
C29_WarningsOnlyCarried ==
    /\ all_warnings = WarningsOf(runner_log)
    /\ \A i \in 1..(Len(runner_log) - 1) : Retried(runner_log, i)
    /\ rr_pc = "loop" =>
          \A i \in DOMAIN runner_log : Retried(runner_log, i)
    /\ rr_pc = "returned" =>
          LET last == runner_log[Len(runner_log)]
          IN  /\ run_result.warnings = WarningsOf(runner_log)
              /\ ~Retried(runner_log, Len(runner_log))
              /\ run_result.success = last.success
              /\ run_result.final_error =
                    (IF last.success THEN None
                     ELSE IF last.error_kind = None THEN "NORMALIZATION_ERROR"
                     ELSE last.error_kind)
              /\ run_result.attempts = Len(runner_log)
              /\ run_result.delays_seconds =
                    [k \in 1..(Len(runner_log) - 1) |->
                        compute_delay(retry_policy, k)]

\* A call has failed for good on its second attempt; both attempts carried a
\* warning and the RunResult carries the two of them.
C29_Witness ==
    /\ rr_pc = "returned"
    /\ Len(runner_log) = 2
    /\ runner_log[1].warnings = <<"PROVIDER_WARNING_MCP_STARTUP">>
    /\ runner_log[2].warnings = <<"PROVIDER_WARNING_MCP_STARTUP">>
    /\ ~run_result.success
    /\ run_result.final_error = "NON_RETRYABLE_AUTH"
    /\ run_result.warnings = <<"PROVIDER_WARNING_MCP_STARTUP",
                               "PROVIDER_WARNING_MCP_STARTUP">>

\* C30: run_with_retry keeps nothing from one call to the next: whatever call
\* returned before, on this instance or another, for this task and provider
\* or others, the call's first runner call is runner(1), it makes at least
\* one, and the RunResult is made of this call's attempts alone: attempts is
\* their number, delays_seconds the sleeps between them, warnings their
\* warnings, output the output of the last of them.
C30_NoStateBetweenCalls ==
    /\ call_log # <<>> => call_log[1] = [fn |-> "runner", arg |-> 1]
    /\ attempts = Len(runner_log)
    /\ delays = sleep_log
    /\ rr_pc = "returned" =>
          /\ Len(runner_log) >= 1
          /\ run_result.task_id = task_id
          /\ run_result.provider = provider
          /\ run_result.attempts = Len(runner_log)
          /\ run_result.delays_seconds = sleep_log
          /\ run_result.warnings = WarningsOf(runner_log)
          /\ run_result.output = runner_log[Len(runner_log)].output
          /\ run_result.success = runner_log[Len(runner_log)].success

\* A call has returned after a call for the same task and provider returned
\* on the other instance: one attempt, its output, no warnings, no delays.
C30_Witness ==
    /\ rr_pc = "returned"
    /\ previous_call.task_id = task_id
    /\ previous_call.provider = provider
    /\ previous_call.runtime = "runtime_a"
    /\ runtime = "runtime_b"
    /\ runner_log = <<[success |-> TRUE, error_kind |-> None,
                       output |-> "ok", warnings |-> <<>>]>>
    /\ run_result.attempts = 1
    /\ run_result.output = "ok"
    /\ run_result.warnings = <<>>
    /\ run_result.delays_seconds = <<>>

-----------------------------------------------------------------------------
(***************************************************************************)
(* Properties of evaluate_terminal_state                                   *)
(***************************************************************************)

\* The success booleans of a dict.
Oks(d) == {d[i][2] : i \in 1..Len(d)}

\* How many providers of a dict have success = b: with b = TRUE and b = FALSE
\* this is the multiset of the dict's booleans.
CountOf(d, b) == Cardinality({i \in 1..Len(d) : d[i][2] = b})

\* C6: the reducer returns FAILED for the empty map, FAILED when no provider
\* succeeded, COMPLETED when every provider succeeded, and PARTIAL_SUCCESS
\* when some succeeded and some failed.
C6_ReducerTable ==
    terminal_state # None =>
        terminal_state =
            (CASE required_provider_success = <<>> -> "FAILED"
               [] Oks(required_provider_success) = {FALSE} -> "FAILED"
               [] Oks(required_provider_success) = {TRUE} -> "COMPLETED"
               [] Oks(required_provider_success) = {TRUE, FALSE} ->
                      "PARTIAL_SUCCESS")

C6_Witness ==
    /\ terminal_state = "PARTIAL_SUCCESS"
    /\ required_provider_success = <<<<"claude", TRUE>>, <<"codex", FALSE>>>>

\* C7: two maps with the same multiset of success booleans reduce to the same
\* state, whatever their provider keys and their insertion order.
C7_ReducerMultisetOnly ==
    (/\ terminal_state # None
     /\ other_terminal_state # None
     /\ \A b \in BOOLEAN :
           CountOf(required_provider_success, b)
               = CountOf(other_provider_success, b)) =>
        terminal_state = other_terminal_state

C7_Witness ==
    /\ required_provider_success = <<<<"claude", FALSE>>, <<"codex", TRUE>>>>
    /\ other_provider_success = <<<<"qwen", TRUE>>, <<"claude", FALSE>>>>
    /\ terminal_state = "PARTIAL_SUCCESS"
    /\ other_terminal_state = "PARTIAL_SUCCESS"

\* C35: for every provider->success map, evaluate_terminal_state returns
\* COMPLETED, PARTIAL_SUCCESS or FAILED, never a non-terminal state, CANCELLED
\* or EXPIRED; and a transition() to the reducer's result made by a machine
\* in AGGREGATING succeeds and leaves the machine in that state.
C35_ReducerResultLegalAfterAggregating ==
    /\ [](terminal_state # None =>
              terminal_state \in {"COMPLETED", "PARTIAL_SUCCESS", "FAILED"})
    /\ [][\A next_state \in TaskState :
            (/\ state = "AGGREGATING"
             /\ terminal_state # None
             /\ next_state = terminal_state
             /\ transition(next_state)) =>
                (/\ sm_call'.outcome = "ok"
                 /\ state' = terminal_state)]_vars

\* A machine in AGGREGATING moved to PARTIAL_SUCCESS, the reducer's result
\* for three providers of which some succeeded.
C35_Witness ==
    /\ Len(required_provider_success) = Cardinality(Providers)
    /\ terminal_state = "PARTIAL_SUCCESS"
    /\ sm_call.from = "AGGREGATING"
    /\ sm_call.next = terminal_state
    /\ sm_call.outcome = "ok"
    /\ state = "PARTIAL_SUCCESS"

-----------------------------------------------------------------------------
(***************************************************************************)
(* Properties of should_expire                                             *)
(***************************************************************************)

\* C8: should_expire returns true exactly when elapsed > timeout + grace or
\* heartbeat_age > heartbeat_ttl, both comparisons strict.
C8_ExpireIff ==
    expire_checked =>
        (expired <=>
            (\/ elapsed_seconds > timeout_seconds + grace_seconds
             \/ heartbeat_age_seconds > heartbeat_ttl_seconds))

C8_Witness ==
    /\ expire_checked
    /\ elapsed_seconds = timeout_seconds + grace_seconds
    /\ heartbeat_age_seconds = heartbeat_ttl_seconds
    /\ timeout_seconds > 0
    /\ grace_seconds > 0
    /\ ~expired

\* C9: with the limits unchanged, once should_expire has returned true it
\* returns true again after any increase of elapsed or heartbeat_age.
C9_ExpiryMonotone ==
    [][(expire_checked /\ expired) => expired']_vars

C9_Witness ==
    /\ advanced
    /\ expired_before
    /\ expired
    /\ elapsed_seconds <= timeout_seconds + grace_seconds
    /\ heartbeat_age_seconds > heartbeat_ttl_seconds + 1

-----------------------------------------------------------------------------
(***************************************************************************)
(* Properties of the adapter                                               *)
(***************************************************************************)

TerminalAttemptStates == {"SUCCEEDED", "FAILED", "EXPIRED"}

\* C10: after a poll() that returned a terminal status, and after a cancel()
\* that returned, the run-handle table does not contain that run_id.
C10_HandleReleased ==
    (/\ last_op.outcome = "returned"
     /\ \/ last_op.op = "cancel"
        \/ (last_op.op = "poll"
            /\ last_op.attempt_state \in TerminalAttemptStates)) =>
        last_op.run_id \notin runs

\* C11: poll(ref) for a run_id that has no handle returns completed = true,
\* attempt_state EXPIRED, error_kind NON_RETRYABLE_INVALID_INPUT and the
\* message run_handle_not_found, and changes neither the run table nor any
\* file; and no poll() returns STARTED for a run_id after a poll() returned a
\* terminal status for it or a cancel() dropped its handle.
C11_PollWithoutHandle ==
    /\ [][\A r \in RefIds, written \in BOOLEAN, stdout_text \in StdoutTexts,
             stderr_text \in StderrTexts :
             (r \notin runs /\ poll(r, written, stdout_text, stderr_text)) =>
                 (/\ last_op'.op = "poll"
                  /\ last_op'.run_id = r
                  /\ last_op'.outcome = "returned"
                  /\ last_op'.completed = TRUE
                  /\ last_op'.attempt_state = "EXPIRED"
                  /\ last_op'.error_kind = "NON_RETRYABLE_INVALID_INPUT"
                  /\ last_op'.message = "run_handle_not_found"
                  /\ UNCHANGED <<runs, capture, result_json>>)]_vars
    /\ []((last_op.op = "poll" /\ last_op.attempt_state = "STARTED") =>
              last_op.run_id \notin released)

\* A poll() of a run whose handle an earlier call released returned EXPIRED.
C11_Witness ==
    /\ last_op.op = "poll"
    /\ last_op.attempt_state = "EXPIRED"
    /\ last_op.run_id \in RunIds
    /\ proc[last_op.run_id] = "exited"
    /\ capture[last_op.run_id] = "closed"

\* C12: once cancel(ref) has signalled the live child of a run, or has
\* returned for that run, a poll(ref) eventually reports completed = true with
\* the handle released, provided the signalled child exits and the caller
\* keeps polling.
C12_CancelThenPollCompletes ==
    \A r \in OneRun :
        (\/ cancel_ref = r
         \/ (/\ last_op.op = "cancel"
             /\ last_op.run_id = r
             /\ last_op.outcome = "returned"
             /\ proc[r] # "unborn")) ~>
        (/\ last_op.op = "poll"
         /\ last_op.run_id = r
         /\ last_op.outcome = "returned"
         /\ last_op.completed
         /\ r \notin runs)

\* A run whose child was signalled by cancel() and whose exit a later poll()
\* observed and reported.
C12_Witness ==
    /\ last_op.op = "poll"
    /\ last_op.outcome = "returned"
    /\ last_op.completed
    /\ last_op.attempt_state \in {"SUCCEEDED", "FAILED"}
    /\ last_op.run_id \in OneRun
    /\ Len(signals[last_op.run_id]) = 2

\* C13: cancel() is idempotent: a cancel(ref) called right after a cancel(ref)
\* that returned sends no signal, raises nothing and leaves the run table and
\* the capture files as the first call left them; and a cancel(ref) on a
\* run_id that has no handle changes nothing.
C13_CancelIdempotent ==
    [][\A r \in RefIds, outcome \in KillpgOutcomes :
          (/\ \/ r \notin runs
              \/ (/\ last_op.op = "cancel"
                  /\ last_op.run_id = r
                  /\ last_op.outcome = "returned")
           /\ cancel_begin(r, outcome)) =>
              (/\ UNCHANGED <<signals, runs, capture, result_json>>
               /\ adapter_pc' = "idle"
               /\ last_op'.op = "cancel"
               /\ last_op'.outcome = "returned")]_vars

\* The signal a step appends to the log of run r.
SignalSent(r) == signals'[r][Len(signals'[r])]

\* C14: cancel() escalates in order. A signal goes to the child's process
\* group, never to the bare pid; SIGTERM is the first signal of a call and is
\* followed by a wait; SIGKILL is sent only after that wait, in the call that
\* sent SIGTERM, and only if the child is still alive; and the capture files
\* are closed and the handle dropped only in the step that ends the call,
\* never in or before a signalling step.
C14_EscalationOrder ==
    [][\A r \in RunIds :
          /\ signals'[r] # signals[r] =>
                (/\ Len(signals'[r]) = Len(signals[r]) + 1
                 /\ SubSeq(signals'[r], 1, Len(signals[r])) = signals[r]
                 /\ SignalSent(r).to = "pgid"
                 /\ SignalSent(r).signal \in {"SIGTERM", "SIGKILL"}
                 /\ SignalSent(r).signal = "SIGTERM" =>
                        (adapter_pc = "idle" /\ adapter_pc' = "cancel_sleep_term")
                 /\ SignalSent(r).signal = "SIGKILL" =>
                        (/\ adapter_pc = "cancel_sleep_term"
                         /\ adapter_pc' = "cancel_sleep_kill"
                         /\ cancel_ref = r
                         /\ process_alive(r)
                         /\ signals[r] # <<>>
                         /\ signals[r][Len(signals[r])].signal = "SIGTERM")
                 /\ cancel_ref' = r
                 /\ UNCHANGED <<runs, capture>>)
          /\ (adapter_pc # "idle" /\ cancel_ref = r /\ signals'[r] = signals[r]) =>
                adapter_pc' \in {adapter_pc, "idle"}
          /\ (adapter_pc # "idle" /\ (runs' # runs \/ capture' # capture)) =>
                (adapter_pc' = "idle" /\ signals' = signals)]_vars

\* A cancel() that sent SIGTERM, waited, sent SIGKILL, waited, and then closed
\* the capture files and dropped the handle.
C14_Witness ==
    /\ last_op.op = "cancel"
    /\ last_op.outcome = "returned"
    /\ last_op.run_id \in RunIds
    /\ signals[last_op.run_id] = <<[signal |-> "SIGTERM", to |-> "pgid"],
                                   [signal |-> "SIGKILL", to |-> "pgid"]>>
    /\ last_op.run_id \notin runs
    /\ capture[last_op.run_id] = "closed"

\* cancel(ref) is at a killpg on run r: at the SIGTERM step of a call on a
\* live child, or at the SIGKILL step after the first wait, and killpg ends
\* with `outcome`.
CancelAtKillpg(r, outcome) ==
    \/ (/\ r \in runs
        /\ process_alive(r)
        /\ cancel_begin(r, outcome))
    \/ (/\ adapter_pc = "cancel_sleep_term"
        /\ cancel_ref = r
        /\ process_alive(r)
        /\ cancel_after_term_wait(outcome))

\* C15: when the killpg of the SIGTERM step or of the SIGKILL step raises
\* ProcessLookupError, cancel() closes the capture files, drops the handle and
\* returns normally, sending nothing more; when it raises another OSError,
\* cancel() raises that error.
C15_LookupErrorIsExit ==
    [][\A r \in RunIds :
          /\ CancelAtKillpg(r, "ProcessLookupError") =>
                (/\ capture'[r] = "closed"
                 /\ r \notin runs'
                 /\ adapter_pc' = "idle"
                 /\ last_op'.op = "cancel"
                 /\ last_op'.run_id = r
                 /\ last_op'.outcome = "returned"
                 /\ signals' = signals)
          /\ CancelAtKillpg(r, "PermissionError") =>
                (/\ adapter_pc' = "idle"
                 /\ last_op'.op = "cancel"
                 /\ last_op'.run_id = r
                 /\ last_op'.outcome = "PermissionError")]_vars

\* A cancel() whose SIGKILL step met ProcessLookupError and which returned
\* with the files closed and the handle dropped.
C15_Witness ==
    /\ last_op.op = "cancel"
    /\ last_op.caught = "ProcessLookupError"
    /\ last_op.outcome = "returned"
    /\ last_op.run_id \in RunIds
    /\ Len(signals[last_op.run_id]) = 1
    /\ last_op.run_id \notin runs
    /\ capture[last_op.run_id] = "closed"

\* C16: cancel(ref) on a run that still has its handle and whose child has
\* already exited sends no signal, closes the capture files, removes the
\* handle and returns at once.
C16_CancelOfExitedChild ==
    [][\A r \in RunIds, outcome \in KillpgOutcomes :
          (/\ r \in runs
           /\ proc[r] = "exited"
           /\ cancel_begin(r, outcome)) =>
              (/\ signals' = signals
               /\ capture'[r] = "closed"
               /\ runs' = runs \ {r}
               /\ adapter_pc' = "idle"
               /\ last_op'.op = "cancel"
               /\ last_op'.run_id = r
               /\ last_op'.outcome = "returned")]_vars

\* A run that was never polled or signalled, whose child exited and whose
\* handle cancel() then released.
C16_Witness ==
    /\ last_op.op = "cancel"
    /\ last_op.outcome = "returned"
    /\ last_op.caught = None
    /\ last_op.run_id \in RunIds
    /\ proc[last_op.run_id] = "exited"
    /\ signals[last_op.run_id] = <<>>
    /\ last_op.run_id \in released
    /\ last_op.run_id \notin runs
    /\ last_op.run_id \notin result_json
    /\ capture[last_op.run_id] = "closed"

\* C17: for every run whose handle has been released, by whatever sequence of
\* poll() and cancel() calls, the provider result JSON has been written and
\* the stdout and stderr capture files exist.
C17_ArtifactsOfReleasedRun ==
    \A r \in RunIds :
        (proc[r] # "unborn" /\ r \in released /\ r \notin runs) =>
            (r \in result_json /\ capture[r] # "unopened")

\* C18, as stated: every TaskStatus poll() returns has error_kind non-null
\* exactly when attempt_state is FAILED, and completed true exactly when
\* attempt_state is SUCCEEDED, FAILED or EXPIRED.
C18_ErrorKindIffFailed ==
    (last_op.op = "poll" /\ last_op.outcome = "returned") =>
        /\ (last_op.error_kind # None) <=> (last_op.attempt_state = "FAILED")
        /\ last_op.completed <=>
               (last_op.attempt_state \in TerminalAttemptStates)

\* C18, amended: every TaskStatus poll() returns has error_kind non-null
\* exactly when attempt_state is FAILED or EXPIRED (the status of a missing
\* handle carries NON_RETRYABLE_INVALID_INPUT), and completed true exactly
\* when attempt_state is SUCCEEDED, FAILED or EXPIRED.
C18_StatusShape ==
    (last_op.op = "poll" /\ last_op.outcome = "returned") =>
        /\ last_op.attempt_state \in TerminalAttemptStates \cup {"STARTED"}
        /\ (last_op.error_kind # None) <=>
               (last_op.attempt_state \in {"FAILED", "EXPIRED"})
        /\ last_op.attempt_state = "EXPIRED" =>
               last_op.error_kind = "NON_RETRYABLE_INVALID_INPUT"
        /\ last_op.completed <=>
               (last_op.attempt_state \in TerminalAttemptStates)

\* A poll() that returned FAILED with the classifier's error kind.
C18_Witness ==
    /\ last_op.op = "poll"
    /\ last_op.outcome = "returned"
    /\ last_op.attempt_state = "FAILED"
    /\ last_op.error_kind = "NON_RETRYABLE_AUTH"
    /\ last_op.completed

\* C19: a poll() that observes the child's exit and returns reports SUCCEEDED
\* exactly when the adapter's is_success hook returns true on the exit code
\* and the captured texts, and FAILED otherwise; with the base class's hook,
\* SUCCEEDED exactly when the exit code is 0; error_kind is null on SUCCEEDED
\* and classify_error's result on FAILED; and the payload written to the
\* result JSON carries the hook's result as `success`.
C19_SuccessHookDecides ==
    [][\A r \in RunIds, stdout_text \in StdoutTexts, stderr_text \in StderrTexts :
          (/\ r \in runs
           /\ proc[r] = "exited"
           /\ poll(r, TRUE, stdout_text, stderr_text)) =>
              LET hook == is_success(exit_code[r], stdout_text, stderr_text)
              IN  /\ last_op'.op = "poll"
                  /\ last_op'.run_id = r
                  /\ last_op'.outcome = "returned"
                  /\ last_op'.attempt_state =
                         IF hook THEN "SUCCEEDED" ELSE "FAILED"
                  /\ success_hook = "default" =>
                         ((last_op'.attempt_state = "SUCCEEDED") <=>
                              (exit_code[r] = 0))
                  /\ last_op'.error_kind =
                         IF hook THEN None
                         ELSE classify_error(exit_code[r], stderr_text)
                  /\ last_op'.recorded =
                         {[exit_code |-> exit_code[r],
                           success |-> hook,
                           error_kind |-> last_op'.error_kind]}]_vars

\* A run that exited with a non-zero code and was reported SUCCEEDED, with
\* success recorded, because the adapter's hook said so.
C19_Witness ==
    /\ success_hook = "override"
    /\ last_op.op = "poll"
    /\ last_op.attempt_state = "SUCCEEDED"
    /\ last_op.error_kind = None
    /\ last_op.run_id \in RunIds
    /\ last_op.recorded =
           {[exit_code |-> 1, success |-> TRUE, error_kind |-> None]}

\* C20: every subprocess the adapter has spawned (by run(), the version probe
\* or the auth probe) was given the ambient environment without CLAUDECODE:
\* CLAUDECODE is absent, every other variable of the ambient environment,
\* PATH included, is there with its value, and nothing else is; and no call
\* changes the ambient environment.
C20_SanitizedEnv ==
    /\ [](\A s \in spawn_log :
             /\ s.who \in Spawners
             /\ "CLAUDECODE" \notin DOMAIN s.env
             /\ DOMAIN s.env = (DOMAIN environ) \ {"CLAUDECODE"}
             /\ \A k \in DOMAIN s.env : s.env[k] = environ[k])
    /\ [][environ' = environ]_vars

\* With CLAUDECODE, PATH and HOME set, a run and both probes were spawned.
C20_Witness ==
    /\ DOMAIN environ = {"CLAUDECODE", "PATH", "HOME"}
    /\ environ["PATH"] # environ["HOME"]
    /\ \E s \in spawn_log : s.who \in RunIds
    /\ \E s \in spawn_log : s.who = "version_probe"
    /\ \E s \in spawn_log : s.who = "auth_probe"

\* C21: run() refuses an empty command. When the command it resolves (the
\* override if that is a list, else the assembled command) is empty or is not
\* a list, run() raises and has no effect: no child is spawned, no artifact
\* directory is created, no capture file is opened, no run_id is drawn and
\* the run-handle table is unchanged.
C21_EmptyCommandRefused ==
    [][\A command_override \in CommandValues, built_command \in CommandValues :
          LET cmd == IF command_override.is_list THEN command_override
                     ELSE built_command
              run_called ==
                  \/ run_empty_command(command_override, built_command)
                  \/ \E r \in RunIds, spawned \in BOOLEAN :
                        run(r, command_override, built_command, spawned)
          IN  ((~cmd.is_list \/ Len(cmd.items) = 0) /\ run_called) =>
                  (/\ last_op'.op = "run"
                   /\ last_op'.outcome = "ValueError"
                   /\ UNCHANGED <<runs, used_ids, proc, capture, artifact_dirs,
                                  spawn_log, result_json>>)]_vars

\* run() was refused while one run was registered, and that run's handle,
\* child and files are as they were.
C21_Witness ==
    /\ last_op.op = "run"
    /\ last_op.outcome = "ValueError"
    /\ \E r \in RunIds : r \in runs /\ proc[r] = "alive" /\ capture[r] = "open"
    /\ Cardinality(used_ids) = 1

\* C31: when the write of the result JSON fails in the poll() that observes
\* the child's exit, poll() raises the write's error: the call returns no
\* TaskStatus (no attempt_state, no completed flag, no error_kind) and records
\* no payload.
C31_WriteFailurePropagates ==
    [][\A r \in RunIds, stdout_text \in StdoutTexts, stderr_text \in StderrTexts :
          (/\ r \in runs
           /\ proc[r] = "exited"
           /\ poll(r, FALSE, stdout_text, stderr_text)) =>
              (/\ last_op'.op = "poll"
               /\ last_op'.run_id = r
               /\ last_op'.outcome = "OSError"
               /\ last_op'.attempt_state = None
               /\ last_op'.completed = FALSE
               /\ last_op'.error_kind = None
               /\ last_op'.message = None
               /\ last_op'.recorded = {}
               /\ result_json' = result_json)]_vars

\* A poll() of a run whose child failed raised the write's error; no result
\* JSON exists for the run.
C31_Witness ==
    /\ last_op.op = "poll"
    /\ last_op.outcome = "OSError"
    /\ last_op.run_id \in RunIds
    /\ proc[last_op.run_id] = "exited"
    /\ exit_code[last_op.run_id] = 1
    /\ last_op.run_id \notin result_json

\* A step in which _close_io runs on the handle of run r: a poll() that finds
\* the child exited and writes the result JSON, or a cancel() that finds the
\* child exited.
ClosesAgain(r) ==
    \/ \E stdout_text \in StdoutTexts, stderr_text \in StderrTexts :
          poll(r, TRUE, stdout_text, stderr_text)
    \/ \E outcome \in KillpgOutcomes : cancel_begin(r, outcome)

\* C32: over any sequence of run(), poll() and cancel() calls, each capture
\* file is owned by exactly one handle (an open capture file belongs to a
\* handle of the run table), is closed once (a closed file stays closed, and a
\* file is closed only by a call on its own run), and a close attempted on
\* files that are already closed, after a poll() whose write failed, raises
\* nothing.
C32_CaptureOwnedClosedOnce ==
    /\ [](\A r \in RunIds : capture[r] = "open" => r \in runs)
    /\ [][\A r \in RunIds :
            /\ capture[r] = "closed" => capture'[r] = "closed"
            /\ (capture[r] = "open" /\ capture'[r] = "closed") =>
                   (last_op'.op \in {"poll", "cancel"} /\ last_op'.run_id = r)
            /\ (r \in runs /\ capture[r] = "closed" /\ ClosesAgain(r)) =>
                   (/\ last_op'.outcome = "returned"
                    /\ capture'[r] = "closed"
                    /\ r \notin runs')]_vars

\* C37: when cancel(ref) returns having released the handle of a run whose
\* child was alive when the call began, no process of the child's process
\* group is alive: neither the child nor a subprocess it spawned, whether that
\* one ignores SIGTERM or outlives the child.
C37_GroupDeadAfterCancel ==
    [][\A r \in OneRun :
          (/\ r \in runs
           /\ r \notin runs'
           /\ last_op'.op = "cancel"
           /\ last_op'.outcome = "returned"
           /\ (adapter_pc # "idle" \/ process_alive(r))) =>
              (/\ proc'[r] = "exited"
               /\ subprocess'[r] # "alive")]_vars

\* C38: whenever no adapter operation is in progress, every capture file that
\* run() opened and that is not closed belongs to a handle of the run table,
\* also after a run() whose spawn raised; and no handle is registered for a
\* child that was not spawned.
C38_OpenFilesHaveHandle ==
    adapter_pc = "idle" =>
        \A r \in RunIds :
            /\ capture[r] = "open" => r \in runs
            /\ r \in runs => (proc[r] # "unborn" /\ capture[r] # "unopened")

-----------------------------------------------------------------------------
(***************************************************************************)
(* Properties of the formatters                                            *)
(***************************************************************************)

\* C22: the document format_sarif returns has version "2.1.0" and exactly one
\* run, whose tool.driver.name is "MCO" and whose results are as many as the
\* findings it was called with, the i-th result being that of the i-th
\* finding (its rule id, its fingerprint, its category lower-cased and
\* stripped); for no findings the results are the empty list.
C22_SarifShape ==
    last_format.format = "sarif" =>
        LET document == last_format.sarif[1]
        IN  /\ document.version = "2.1.0"
            /\ Len(document.runs) = 1
            /\ document.runs[1].tool.driver.name = "MCO"
            /\ Len(document.runs[1].results) = Len(input_findings)
            /\ \A i \in DOMAIN input_findings :
                  LET result == document.runs[1].results[i]
                      finding == input_findings[i]
                  IN  /\ result.ruleId = rule_id_for_finding(finding)
                      /\ result.properties.fingerprint
                            = get(finding.fingerprint, "")
                      /\ result.properties.category
                            = lower(strip(get(finding.category, <<>>)))
            /\ (input_findings = <<>> => document.runs[1].results = <<>>)

\* format_sarif has returned the document of two findings that share a rule:
\* two results, one rule.
C22_Witness ==
    /\ last_format.format = "sarif"
    /\ Len(input_findings) = 2
    /\ input_findings[1] # input_findings[2]
    /\ Len(last_format.sarif[1].runs[1].results) = 2
    /\ Len(last_format.sarif[1].runs[1].tool.driver.rules) = 1

\* The lists that hold the same findings as a list, in any order.
PermutationsOf(list) ==
    {[i \in DOMAIN list |-> list[p[i]]] :
        p \in {q \in [DOMAIN list -> DOMAIN list] :
                  \A i, j \in DOMAIN list : q[i] = q[j] => i = j}}

\* C23: in the document format_sarif returns no two rules share an id, every
\* result's ruleId is the id of one of the rules, two findings have the same
\* rule id exactly when their normalized categories agree and their
\* normalized titles agree, and format_sarif emits the same set of rules for
\* every permutation of the findings.
C23_RulesDeduplicatedAndStable ==
    last_format.format = "sarif" =>
        LET sarif_run == last_format.sarif[1].runs[1]
            rules == sarif_run.tool.driver.rules
        IN  /\ \A i, j \in DOMAIN rules : rules[i].id = rules[j].id => i = j
            /\ \A i \in DOMAIN sarif_run.results :
                  \E j \in DOMAIN rules : rules[j].id = sarif_run.results[i].ruleId
            /\ \A i, j \in DOMAIN input_findings :
                  (sarif_run.results[i].ruleId = sarif_run.results[j].ruleId)
                      <=> (/\ rule_category(input_findings[i])
                                 = rule_category(input_findings[j])
                           /\ rule_title(input_findings[i])
                                 = rule_title(input_findings[j]))
            /\ \A permuted \in PermutationsOf(input_findings) :
                  \A payload \in Payloads :
                      Range(format_sarif(payload, permuted)
                                .runs[1].tool.driver.rules)
                          = Range(rules)

\* The positions of a text that satisfy a test, in increasing order.
positions(text, Test(_)) ==
    SelectSeq([i \in DOMAIN text |-> i], Test)

\* The pieces of a text between the positions in cuts, which increase.
cut_at(text, cuts) ==
    LET bound(k) ==
            IF k = 0 THEN 0
            ELSE IF k = Len(cuts) + 1 THEN Len(text) + 1
            ELSE cuts[k]
    IN  [k \in 1..(Len(cuts) + 1) |->
            SubSeq(text, bound(k - 1) + 1, bound(k) - 1)]

\* text.split(sep), sep a single character
split_on(text, sep) == cut_at(text, positions(text, LAMBDA i : text[i] = sep))

\* The number of backslashes in a row that end at position i.
RECURSIVE backslashes_up_to(_, _)
backslashes_up_to(text, i) ==
    IF i >= 1 /\ text[i] = "\\" THEN 1 + backslashes_up_to(text, i - 1) ELSE 0

\* A table row as a Markdown reader takes it apart: cut at every pipe that no
\* backslash escapes, a backslash escaping the character after it.
cells_of_row(row) ==
    cut_at(row, positions(row, LAMBDA i :
                    row[i] = "|" /\ backslashes_up_to(row, i - 1) % 2 = 0))

\* What a reader shows for a cell: the escaped character for a backslash
\* escape, a line break for <br>.
RECURSIVE shown_text(_)
shown_text(cell) ==
    IF cell = <<>> THEN <<>>
    ELSE IF Head(cell) = "\\" /\ Len(cell) >= 2
         THEN <<cell[2]>> \o shown_text(SubSeq(cell, 3, Len(cell)))
    ELSE IF Len(cell) >= 4 /\ SubSeq(cell, 1, 4) = <<"<", "b", "r", ">">>
         THEN <<"\n">> \o shown_text(SubSeq(cell, 5, Len(cell)))
    ELSE <<Head(cell)>> \o shown_text(Tail(cell))

\* A cell without the space on either side of it, and without the grave
\* accents around it.
cell_text(cell) == SubSeq(cell, 2, Len(cell) - 1)
code_text(cell) == SubSeq(cell, 3, Len(cell) - 2)

\* The rows of the findings table in the latest Markdown report, each as
\* its cells: the lines after the two lines of the table's header.
RenderedRows ==
    LET lines == split_on(last_format.markdown[1], "\n")
        header_end == CHOOSE k \in DOMAIN lines : lines[k] = FINDINGS_HEADER[2]
    IN  [k \in 1..(Len(lines) - header_end) |->
            cells_of_row(lines[header_end + k])]

\* The cells are those of the finding's row: six cells between the pipes,
\* which show the finding's severity, category, title, location and
\* recommendation.
RowShows(cells, finding) ==
    /\ Len(cells) = 8
    /\ cells[1] = <<>> /\ cells[8] = <<>>
    /\ shown_text(code_text(cells[2])) = lower(get(finding.severity, dash))
    /\ shown_text(cell_text(cells[3])) = get(finding.category, dash)
    /\ shown_text(cell_text(cells[4])) = get(finding.title, dash)
    /\ shown_text(code_text(cells[5])) = finding_location(finding)
    /\ shown_text(cell_text(cells[7])) = get(finding.recommendation, dash)

\* C24: in the report format_markdown_pr returns for a list of findings, the
\* findings table has one row for each finding and each row has exactly the
\* six columns of the header: no raw newline and no unescaped pipe is inside
\* a cell, and every cell shows the finding's value, '\' written as '\\',
\* '|' as '\|' (not as '\\|', which would end the cell) and a newline as
\* '<br>'.
C24_MarkdownCellsEscaped ==
    (last_format.format = "markdown-pr" /\ input_findings # <<>>) =>
        LET rows == RenderedRows
        IN  /\ Len(rows) = Len(input_findings)
            /\ \A k \in DOMAIN rows :
                  /\ Len(rows[k]) = 8
                  /\ \E i \in DOMAIN input_findings :
                        RowShows(rows[k], input_findings[i])
            /\ \A i \in DOMAIN input_findings :
                  \E k \in DOMAIN rows : RowShows(rows[k], input_findings[i])

\* format_markdown_pr has rendered two findings, one of them with a pipe, a
\* backslash and a newline in its cells: its row holds '\\\|' for the
\* category '\|', '\|<br>' for the title and '<br>\\' for the recommendation.
C24_Witness ==
    /\ last_format.format = "markdown-pr"
    /\ Len(input_findings) = 2
    /\ LET rows == RenderedRows
       IN  \E k \in DOMAIN rows :
              /\ Len(rows[k]) = 8
              /\ cell_text(rows[k][3]) = <<"\\", "\\", "\\", "|">>
              /\ cell_text(rows[k][4]) = <<"\\", "|", "<", "b", "r", ">">>
              /\ cell_text(rows[k][7]) = <<"<", "b", "r", ">", "\\", "\\">>
              /\ code_text(rows[k][5]) = <<"f", "\\", "\\", ":", "1", "2">>

-----------------------------------------------------------------------------
(***************************************************************************)
(* Properties of the adapter driven by several threads                     *)
(***************************************************************************)

\* The threads whose call satisfies Test.
ThreadsThat(Test(_)) == {t \in ThreadIds : Test(threads[t])}

GotTerminalStatus(call) == call.status \in {"SUCCEEDED", "FAILED"}

WroteResult(call) == call.wrote

ClosedFiles(call) == call.closed

\* C33: access to the run-handle table is serialized: for any interleaving of
\* two concurrent poll() and cancel() calls on one run_id, the release path
\* of the handle runs once, so at most one call obtains the SUCCEEDED or
\* FAILED status of the run, at most one call writes the result JSON and at
\* most one call closes the capture files.
C33_ReleasePathRunsOnce ==
    /\ Cardinality(ThreadsThat(GotTerminalStatus)) <= 1
    /\ Cardinality(ThreadsThat(WroteResult)) <= 1
    /\ Cardinality(ThreadsThat(ClosedFiles)) <= 1

\* C34: poll() writes the result JSON atomically: at every moment, also when
\* the write is interrupted or fails part-way, a reader of
\* providers/<provider>.json finds no file, or a document with all thirteen
\* keys of the payload (the one just written or the previous one), never a
\* part of a document.
C34_ResultWrittenAtomically ==
    result_file.exists =>
        (/\ result_file.keys = PAYLOAD_KEYS
         /\ Len(result_file.keys) = 13)

=============================================================================
